---- MODULE Spec2Model ----
(***************************************************************************)
(* Request dispatcher of the Antigravity proxy: account selection          *)
(* (selection.js), the rate-limit ledger (rate-limits.js), the token cache *)
(* (credentials.js), the account manager (account-manager/index.js) and    *)
(* the non-streaming dispatcher sendMessage (cloudcode/message-handler.js). *)
(*                                                                         *)
(* Time is counted in ticks of 60 000 ms: MAX_WAIT_BEFORE_ERROR_MS is 2    *)
(* ticks and DEFAULT_COOLDOWN_MS is 1 tick.  Instants are measured from a  *)
(* moving origin: the current instant Date.now() is always the instant     *)
(* now = 1, and when the clock ticks every stored instant that lies in the *)
(* future moves one tick closer (Tick).  The code only ever compares a     *)
(* stored instant with Date.now() or subtracts Date.now() from it, so an   *)
(* instant that is not in the future is kept at now.  The number 0 stands  *)
(* for a null resetTime (every real instant is at least now); a null       *)
(* resetMs or cooldownDurationMs is NoReset, distinct from a duration of 0. *)
(*                                                                         *)
(* Accounts are addressed by their position in the account list, which     *)
(* stands for the (unique) email.                                          *)
(***************************************************************************)
EXTENDS Integers, Sequences, FiniteSets, TLC

VARIABLES
    accounts,        \* #accounts: position -> [isInvalid, invalidReason,
                     \*   enabled, modelRateLimits]
    currentIndex,    \* #currentIndex (activeIndex)
    settings,        \* #settings.cooldownDurationMs (NoReset = none)
    pc,              \* position of the sendMessage call in flight
    model,           \* anthropicRequest.model of the (possibly recursive) call
    fallbackEnabled, \* parameter fallbackEnabled of the call
    attempt,         \* loop counter of the retry loop
    account,         \* the local variable account (NoAccount = null)
    endpoint,        \* position in ANTIGRAVITY_ENDPOINT_FALLBACKS
    lastError,       \* the local variable lastError of the endpoint loop
    error,           \* the error caught by the per-account catch block
    wakeAt,          \* instant at which the pending sleep(ms) timer fires
    result,          \* what the top-level call returned or threw
    depth,           \* number of recursive (fallback) calls on the stack
    statuses,        \* history: outcome of each endpoint in this attempt
    resets,          \* history: resetMs parsed from each 429 of this attempt
    attemptLedger,   \* history: accounts at the start of this attempt
    lastAll429,      \* history: every endpoint of the previous attempt said 429
    ret,             \* the last call on the manager and what it returned
    tokenCache,      \* #tokenCache: position -> the entry cached for the email
    projectCache,    \* #projectCache: position -> the project id cached for
                     \*   the email (NoProject = no entry)
    events,          \* history: the upstream response each yielded event came from
    waitedFor,       \* history: the account the sticky sleep in progress is for
    retry,           \* the retryWithBackoff call in flight: its options, its
                     \*   locals attempt and lastError, its position, and the
                     \*   history of its invocations of fn and of its sleeps
    chart            \* the dashboard: _trendChartUpdateLock,
                     \*   component.charts.usageTrend and what the page holds

mgrVars  == <<accounts, currentIndex, settings>>
callVars == <<pc, model, fallbackEnabled, attempt, account, endpoint,
              lastError, error, wakeAt, result, depth>>
histVars == <<statuses, resets, attemptLedger, lastAll429>>
vars     == <<accounts, currentIndex, settings, pc, model,
              fallbackEnabled, attempt, account, endpoint, lastError, error,
              wakeAt, result, depth, statuses, resets, attemptLedger,
              lastAll429, ret, tokenCache, projectCache, events, waitedFor,
              retry, chart>>

-----------------------------------------------------------------------------
(* Bounds of the model *)

NumAccounts == 2      \* accounts in the loaded list
MaxReset    == 3      \* largest reset duration a 429 reports, in ticks
MaxEvents   == 2      \* events of a stream that are followed

(* Program constants *)

DEFAULT_COOLDOWN_MS      == 1   \* 60 * 1000 ms
MAX_WAIT_BEFORE_ERROR_MS == 2   \* 120000 ms
MAX_RETRIES              == 5
NumEndpoints             == 2   \* ANTIGRAVITY_ENDPOINT_FALLBACKS.length
RETRY_PAUSE_MS           == 0   \* sleep(1000): less than one tick
TOKEN_REFRESH_INTERVAL_MS == 5  \* 5 * 60 * 1000 ms

now       == 1                  \* Date.now(), the moving origin
NoAccount == 0 - 1              \* account: null
NullTime  == 0                  \* resetTime: null
NoReset   == 0 - 1              \* resetMs, cooldownDurationMs: null, undefined

Idx    == 0 .. (NumAccounts - 1)
Models == {"gemini-3-pro-high", "claude-opus-4-5-thinking"}

(* MODEL_FALLBACK_MAP restricted to Models; "" stands for no entry. *)
MODEL_FALLBACK_MAP ==
    [m \in Models |-> IF m = "gemini-3-pro-high"
                      THEN "claude-opus-4-5-thinking"
                      ELSE "gemini-3-pro-high"]

getFallbackModel(m) ==
    IF m \in DOMAIN MODEL_FALLBACK_MAP THEN MODEL_FALLBACK_MAP[m] ELSE ""

\* what a reset duration can be: null, or a number of ticks from 0 on
ResetValues == {NoReset} \cup (0 .. MaxReset)

\* a number, null or undefined used as a condition: 0 and null are falsy
Truthy(x) == x # NoReset /\ x # 0

NoLimit == [isRateLimited |-> FALSE, resetTime |-> NullTime]

NoModel == ""                   \* modelId: null
NoSave  == 0 - 1                \* saveToDisk() was not called

NoReason == ""                  \* invalidReason: null

NoProject == "undefined"        \* no cache entry, no projectId, no project
                                \* in an answer of loadCodeAssist

UnknownError == "Unknown error" \* the default of the parameter reason

Min(S) == CHOOSE x \in S : \A y \in S : x <= y
Max2(a, b) == IF a >= b THEN a ELSE b

-----------------------------------------------------------------------------
(* rate-limits.js *)

\* limit.isRateLimited && limit.resetTime > Date.now()
ActiveLimit(acc, m, t) ==
    acc.modelRateLimits[m].isRateLimited /\ acc.modelRateLimits[m].resetTime > t

\* a plausible slip: invalid accounts are not counted as exhausted
isAllRateLimited_limitsOnly(accts, m, t) ==
    \A i \in Idx : ActiveLimit(accts[i], m, t)

isAllRateLimited(accts, m, t) ==
    \A i \in Idx : accts[i].isInvalid \/ ActiveLimit(accts[i], m, t)

\* a plausible slip: the enabled flag of the WebUI is not looked at
isAccountUsable_ignoresEnabled(acc, m, t) ==
    /\ ~acc.isInvalid
    /\ ~ActiveLimit(acc, m, t)

isAccountUsable(acc, m, t) ==
    /\ ~acc.isInvalid
    /\ acc.enabled
    /\ ~ActiveLimit(acc, m, t)

\* positions of the accounts getAvailableAccounts returns
getAvailableAccounts(accts, m, t) ==
    {i \in Idx : /\ ~accts[i].isInvalid
                 /\ accts[i].enabled
                 /\ ~(m # NoModel /\ ActiveLimit(accts[i], m, t))}

\* the records clearExpiredLimits clears
ExpiredRecords(accts, t) ==
    {p \in Idx \X Models :
        /\ accts[p[1]].modelRateLimits[p[2]].isRateLimited
        /\ accts[p[1]].modelRateLimits[p[2]].resetTime <= t}

\* what clearExpiredLimits returns: cleared++ for every record it clears
ClearedCount(accts, t) == Cardinality(ExpiredRecords(accts, t))

\* a plausible slip: a record that expires at this very instant is kept
clearExpiredLimits_strict(accts, t) ==
    [i \in Idx |->
        [accts[i] EXCEPT !.modelRateLimits =
            [m \in Models |->
                IF accts[i].modelRateLimits[m].isRateLimited
                   /\ accts[i].modelRateLimits[m].resetTime < t
                THEN NoLimit
                ELSE accts[i].modelRateLimits[m]]]]

clearExpiredLimits(accts, t) ==
    [i \in Idx |->
        [accts[i] EXCEPT !.modelRateLimits =
            [m \in Models |->
                IF accts[i].modelRateLimits[m].isRateLimited
                   /\ accts[i].modelRateLimits[m].resetTime <= t
                THEN NoLimit
                ELSE accts[i].modelRateLimits[m]]]]

\* a plausible slip: the cooldown is not added to the current instant
markRateLimited_noCooldown(accts, i, resetMs, cooldownSetting, m, t) ==
    [accts EXCEPT ![i].modelRateLimits[m] =
        [isRateLimited |-> TRUE, resetTime |-> t]]

markRateLimited(accts, i, resetMs, cooldownSetting, m, t) ==
    LET cooldownMs == IF Truthy(resetMs) THEN resetMs
                      ELSE IF Truthy(cooldownSetting) THEN cooldownSetting
                      ELSE DEFAULT_COOLDOWN_MS
    IN  [accts EXCEPT ![i].modelRateLimits[m] =
            [isRateLimited |-> TRUE, resetTime |-> t + cooldownMs]]

\* a plausible slip: the flag is not set
markInvalid_flagUnset(accts, i, reason) == accts

markInvalid(accts, i, reason) ==
    [accts EXCEPT ![i].isInvalid = TRUE, ![i].invalidReason = reason]

\* the waits getMinWaitTimeMs takes the minimum of
PositiveWaits(accts, m, t) ==
    {accts[i].modelRateLimits[m].resetTime - t : i \in
        {j \in Idx : /\ accts[j].modelRateLimits[m].isRateLimited
                     /\ accts[j].modelRateLimits[m].resetTime # 0
                     /\ accts[j].modelRateLimits[m].resetTime - t > 0}}

\* a plausible slip: the comparison is turned round, the longest wait is kept
getMinWaitTimeMs_longest(accts, m, t) ==
    IF ~isAllRateLimited(accts, m, t) THEN 0
    ELSE IF PositiveWaits(accts, m, t) = {} THEN DEFAULT_COOLDOWN_MS
    ELSE CHOOSE w \in PositiveWaits(accts, m, t) :
            \A x \in PositiveWaits(accts, m, t) : x <= w

getMinWaitTimeMs(accts, m, t) ==
    IF ~isAllRateLimited(accts, m, t) THEN 0
    ELSE IF PositiveWaits(accts, m, t) = {} THEN DEFAULT_COOLDOWN_MS
    ELSE Min(PositiveWaits(accts, m, t))

-----------------------------------------------------------------------------
(* selection.js; every operator returns the account list as the call left   *)
(* it (clearExpiredLimits mutates it in place) beside the call's result.    *)

\* "Clamp index to valid range"
ClampIndex(index) == IF index >= NumAccounts THEN 0 ELSE index

\* the offsets i = 1 .. accounts.length whose account is usable
UsableOffsets(accts, index, m, t) ==
    {k \in 1 .. NumAccounts :
        isAccountUsable(accts[(index + k) % NumAccounts], m, t)}

\* the accounts a selection touches: account.lastUsed = Date.now() is
\* assigned to the account it returns, and to no account when it returns null
Touched(a) == IF a = NoAccount THEN {} ELSE {a}

\* a plausible slip: the scan starts at the current account (i = 0)
pickNext_fromCurrent(accts, index, m, t) ==
    LET cleared == clearExpiredLimits(accts, t)
        offs    == {k \in 0 .. NumAccounts - 1 :
                       isAccountUsable(
                           cleared[(ClampIndex(index) + k) % NumAccounts], m, t)}
    IN  IF getAvailableAccounts(cleared, m, t) = {} \/ offs = {}
        THEN [accounts |-> cleared, account |-> NoAccount, newIndex |-> index]
        ELSE [accounts |-> cleared,
              account  |-> (ClampIndex(index) + Min(offs)) % NumAccounts,
              newIndex |-> (ClampIndex(index) + Min(offs)) % NumAccounts]

\* a plausible slip: the index is not advanced to the account found
pickNext_keepsIndex(accts, index, m, t) ==
    LET cleared == clearExpiredLimits(accts, t)
        offs    == UsableOffsets(cleared, ClampIndex(index), m, t)
    IN  IF offs = {}
        THEN [accounts |-> cleared, account |-> NoAccount, newIndex |-> index]
        ELSE [accounts |-> cleared,
              account  |-> (ClampIndex(index) + Min(offs)) % NumAccounts,
              newIndex |-> index]

\* a plausible slip: the scan does not wrap around the end of the list
pickNext_noWrap(accts, index, m, t) ==
    LET cleared == clearExpiredLimits(accts, t)
        offs    == UsableOffsets(cleared, ClampIndex(index), m, t)
    IN  IF getAvailableAccounts(cleared, m, t) = {} \/ offs = {}
        THEN [accounts |-> cleared, account |-> NoAccount, newIndex |-> index]
        ELSE [accounts |-> cleared,
              account  |-> (ClampIndex(index) + Min(offs)) % NumAccounts,
              newIndex |-> ClampIndex(index) + Min(offs)]

pickNext(accts, index, m, t) ==
    LET cleared == clearExpiredLimits(accts, t)
        offs    == UsableOffsets(cleared, ClampIndex(index), m, t)
    IN  IF getAvailableAccounts(cleared, m, t) = {} \/ offs = {}
        THEN [accounts |-> cleared, account |-> NoAccount, newIndex |-> index]
        ELSE [accounts |-> cleared,
              account  |-> (ClampIndex(index) + Min(offs)) % NumAccounts,
              newIndex |-> (ClampIndex(index) + Min(offs)) % NumAccounts]

\* a plausible slip: sticky selection rotates like pickNext
getCurrentStickyAccount_rotates(accts, index, m, t) ==
    pickNext(accts, index, m, t)

getCurrentStickyAccount(accts, index, m, t) ==
    LET cleared == clearExpiredLimits(accts, t)
        idx     == ClampIndex(index)
    IN  IF isAccountUsable(cleared[idx], m, t)
        THEN [accounts |-> cleared, account |-> idx, newIndex |-> idx]
        ELSE [accounts |-> cleared, account |-> NoAccount, newIndex |-> idx]

\* a plausible slip: the threshold is excluded (< instead of <=)
shouldWaitForCurrentAccount_strict(accts, index, m, t) ==
    LET acc    == accts[ClampIndex(index)]
        limit  == acc.modelRateLimits[m]
        waitMs == IF limit.isRateLimited /\ limit.resetTime # 0
                  THEN limit.resetTime - t ELSE 0
    IN  IF acc.isInvalid THEN [shouldWait |-> FALSE, waitMs |-> 0]
        ELSE IF waitMs > 0 /\ waitMs < MAX_WAIT_BEFORE_ERROR_MS
             THEN [shouldWait |-> TRUE, waitMs |-> waitMs]
        ELSE [shouldWait |-> FALSE, waitMs |-> 0]

\* a plausible slip: the threshold test is dropped, any positive wait is waited
shouldWaitForCurrentAccount_noCap(accts, index, m, t) ==
    LET acc    == accts[ClampIndex(index)]
        limit  == acc.modelRateLimits[m]
        waitMs == IF limit.isRateLimited /\ limit.resetTime # 0
                  THEN limit.resetTime - t ELSE 0
    IN  IF acc.isInvalid THEN [shouldWait |-> FALSE, waitMs |-> 0]
        ELSE IF waitMs > 0 THEN [shouldWait |-> TRUE, waitMs |-> waitMs]
        ELSE [shouldWait |-> FALSE, waitMs |-> 0]

shouldWaitForCurrentAccount(accts, index, m, t) ==
    LET acc    == accts[ClampIndex(index)]
        limit  == acc.modelRateLimits[m]
        waitMs == IF limit.isRateLimited /\ limit.resetTime # 0
                  THEN limit.resetTime - t ELSE 0
    IN  IF acc.isInvalid THEN [shouldWait |-> FALSE, waitMs |-> 0]
        ELSE IF waitMs > 0 /\ waitMs <= MAX_WAIT_BEFORE_ERROR_MS
             THEN [shouldWait |-> TRUE, waitMs |-> waitMs]
        ELSE [shouldWait |-> FALSE, waitMs |-> 0]

pickStickyAccount(accts, index, m, t) ==
    LET sticky == getCurrentStickyAccount(accts, index, m, t)
        next   == pickNext(sticky.accounts, index, m, t)
        wait   == shouldWaitForCurrentAccount(sticky.accounts, index, m, t)
    IN  IF sticky.account # NoAccount
        THEN [accounts |-> sticky.accounts, account |-> sticky.account,
              waitMs |-> 0, newIndex |-> sticky.newIndex]
        ELSE IF getAvailableAccounts(sticky.accounts, m, t) # {}
                /\ next.account # NoAccount
        THEN [accounts |-> next.accounts, account |-> next.account,
              waitMs |-> 0, newIndex |-> next.newIndex]
        ELSE IF wait.shouldWait
        THEN [accounts |-> sticky.accounts, account |-> NoAccount,
              waitMs |-> wait.waitMs, newIndex |-> index]
        ELSE [accounts |-> next.accounts, account |-> next.account,
              waitMs |-> 0, newIndex |-> next.newIndex]

-----------------------------------------------------------------------------
(* Errors.  An error is [kind, txt, resetMs]: kind says which statement of  *)
(* the program built it, txt which of the patterns the handlers search for  *)
(* occurs in the free text it embeds (an upstream body or the message of a  *)
(* thrown exception), resetMs is the field of the 429 record.               *)

Texts == {"plain", "rate-limit", "auth", "5xx", "network"}

NoError == [kind |-> "none", txt |-> "plain", resetMs |-> NoReset]

Err(k, x) == [kind |-> k, txt |-> x, resetMs |-> NoReset]

\* errors.js, as the handlers import it
isRateLimitError(e) == e.kind = "RateLimited" \/ e.txt = "rate-limit"

isAuthError(e) == e.kind = "AuthInvalid" \/ e.txt = "auth"

\* message.includes('API error 5') || includes('500') || includes('503')
Is5xxMessage(e) == e.kind = "ApiError5xx" \/ e.txt = "5xx"

\* helpers.js
isNetworkError(e) == e.kind = "AuthNetwork" \/ e.txt = "network"

\* "Keep minimum reset time across all 429 responses"
Keep429(le, resetMs) ==
    IF le.kind # "is429"
       \/ (Truthy(resetMs) /\ (~Truthy(le.resetMs) \/ resetMs < le.resetMs))
    THEN [kind |-> "is429", txt |-> "plain", resetMs |-> resetMs]
    ELSE le

-----------------------------------------------------------------------------
(* sendMessage *)

MaxAttempts == Max2(MAX_RETRIES, NumAccounts + 1)

NoResult == [kind |-> "none", resetAt |-> NullTime,
             endpoint |-> 0, account |-> NoAccount]

\* no call on the manager is waiting to be taken by its caller; arg is the
\* numeric argument of the call (resetMs, the persisted activeIndex),
\* exchanged says whether the call went to the OAuth token endpoint,
\* thrown is the error the call threw, saved is the activeIndex the call
\* handed to saveAccounts (NoSave when it saved nothing), touched holds the
\* accounts whose lastUsed the call assigned, cleared is the count
\* clearExpiredLimits returned, project is the project id
\* getProjectForAccount returned and discovered says whether it called
\* discoverProject
NoRet == [op |-> "none", model |-> "", account |-> NoAccount, waitMs |-> 0,
          arg |-> NoReset, exchanged |-> FALSE, thrown |-> NoError,
          saved |-> NoSave, touched |-> {}, cleared |-> 0,
          project |-> NoProject, discovered |-> FALSE]

\* the positions at which the call is suspended while time passes: the two
\* long sleeps, and the awaits of one attempt (token, project, fetches and the
\* one-second pauses), which read no clock between the selection before them
\* and the mark after them, so that the time they take is taken at the first
AwaitPcs == {"token", "sleepSticky", "sleepAll"}

\* one tick passes: a stored instant in the future comes one tick closer
AgeInstant(x) == IF x > now THEN x - 1 ELSE x

\* one tick passes: a stored instant of the past moves one tick away; the code
\* only compares its age with TOKEN_REFRESH_INTERVAL_MS, so an age that has
\* reached the interval is kept there
AgePast(x) == IF now - x < TOKEN_REFRESH_INTERVAL_MS THEN x - 1 ELSE x

\* tokenCache.get(email) is undefined
NoToken == [cached |-> FALSE, extractedAt |-> NullTime]

NoTokens == [i \in Idx |-> NoToken]

\* projectCache.get(email) is undefined for every account
NoProjects == [i \in Idx |-> NoProject]

AgeCache(cache) ==
    [i \in Idx |-> IF cache[i].cached
                   THEN [cache[i] EXCEPT !.extractedAt = AgePast(@)]
                   ELSE cache[i]]

Age(accts) ==
    [i \in Idx |->
        [accts[i] EXCEPT !.modelRateLimits =
            [m \in Models |->
                [accts[i].modelRateLimits[m] EXCEPT !.resetTime = AgeInstant(@)]]]]

\* what initialize() leaves after loading: each account enabled or not, and
\* per account no record, a short or a long active limit on the first model
\* (the expired ones are cleared); isInvalid is set only by a failed token
\* exchange of the running process
LoadedLimits ==
    {NoLimit,
     [isRateLimited |-> TRUE, resetTime |-> now + DEFAULT_COOLDOWN_MS],
     [isRateLimited |-> TRUE, resetTime |-> now + MaxReset]}

LoadedAccounts ==
    {[isInvalid |-> FALSE, invalidReason |-> NoReason, enabled |-> e,
      projectId |-> NoProject,
      modelRateLimits |-> [m \in Models |->
          IF m = "gemini-3-pro-high" THEN l ELSE NoLimit]] :
        e \in BOOLEAN, l \in LoadedLimits}

\* no attempt has begun: nothing is remembered of the ledger
NoLedger ==
    [i \in Idx |-> [isInvalid |-> FALSE, invalidReason |-> NoReason,
                    enabled |-> TRUE, projectId |-> NoProject,
                    modelRateLimits |-> [m \in Models |-> NoLimit]]]

\* an error of the retry utility: who threw it and in which attempt
ThrownBy(who, k) == [by |-> who, at |-> k]

\* `let lastError;` before the first catch: undefined
Undefined == ThrownBy("nobody", 0)

\* no retryWithBackoff call is in flight
NoRetry ==
    [pc |-> "idle", maxAttempts |-> 0, onRetry |-> "null", attempt |-> 0,
     lastError |-> Undefined, thrown |-> Undefined, log |-> <<>>]

\* the dashboard as the page is loaded: the lock is free, no trend chart
\* exists, the canvas is not in the DOM, Chart.js has not arrived and no
\* history was fetched; component.displayMode starts as 'model'
NoChart ==
    [lock |-> FALSE, usageTrend |-> FALSE, canvas |-> "absent",
     chartJs |-> FALSE, history |-> FALSE, displayMode |-> "model",
     last |-> "none"]

\* no sendMessage call is in flight
NoCall ==
    /\ model = "gemini-3-pro-high"
    /\ fallbackEnabled = FALSE
    /\ attempt = 0
    /\ account = NoAccount
    /\ endpoint = 1
    /\ lastError = NoError
    /\ error = NoError
    /\ wakeAt = NullTime
    /\ result = NoResult
    /\ depth = 0
    /\ statuses = <<>>
    /\ resets = <<>>
    /\ attemptLedger = NoLedger
    /\ lastAll429 = FALSE
    /\ ret = NoRet
    /\ tokenCache = NoTokens
    /\ projectCache = NoProjects
    /\ events = <<>>
    /\ waitedFor = NoAccount
    /\ retry = NoRetry
    /\ chart = NoChart

\* the manager is initialized with the default settings, a request arrives
Init ==
    /\ accounts \in [Idx -> LoadedAccounts]
    /\ currentIndex \in Idx
    /\ settings = NoReset
    /\ pc = "idle"
    /\ NoCall

\* the clock; synchronous code runs within one instant
Tick ==
    /\ pc \in AwaitPcs \cup {"manager"}
    /\ ret = NoRet
    /\ accounts' = Age(accounts)
    /\ attemptLedger' = Age(attemptLedger)
    /\ wakeAt' = AgeInstant(wakeAt)
    /\ tokenCache' = AgeCache(tokenCache)
    /\ UNCHANGED <<retry, chart, waitedFor, events, projectCache,
                   ret, currentIndex, settings, pc, model, fallbackEnabled,
                   attempt, account, endpoint, lastError, error, result,
                   depth, statuses, resets, lastAll429>>

\* a caller invokes sendMessage(request, accountManager, fb)
Start(m, fb) ==
    /\ pc = "idle"
    /\ pc' = "pick"
    /\ model' = m
    /\ fallbackEnabled' = fb
    /\ attempt' = 0
    /\ UNCHANGED <<retry, chart, waitedFor, events, tokenCache,
                   projectCache, ret,
                   mgrVars, account, endpoint, lastError, error, wakeAt,
                   result, depth, histVars>>

\* an attempt on account a begins (the try block is entered)
BeginAttempt(accts, a) ==
    /\ account' = a
    /\ attemptLedger' = accts
    /\ pc' = "token"

\* for (...; attempt < maxAttempts; ...) is left: throw 'Max retries exceeded'
MaxRetriesExceeded ==
    /\ pc = "pick"
    /\ attempt >= MaxAttempts
    /\ pc' = "done"
    /\ result' = [NoResult EXCEPT !.kind = "MaxRetries"]
    /\ lastAll429' = FALSE
    /\ UNCHANGED <<retry, chart, waitedFor, events, tokenCache,
                   projectCache, ret,
                   mgrVars, model, fallbackEnabled, attempt, account,
                   endpoint, lastError, error, wakeAt, depth, statuses, resets,
                   attemptLedger>>

\* pickStickyAccount returned an account
PickAccount ==
    /\ pc = "pick"
    /\ attempt < MaxAttempts
    /\ LET r == pickStickyAccount(accounts, currentIndex, model, now)
       IN  /\ r.account # NoAccount
           /\ accounts' = r.accounts
           /\ currentIndex' = r.newIndex
           /\ BeginAttempt(r.accounts, r.account)
    /\ lastAll429' = FALSE
    /\ UNCHANGED <<retry, chart, waitedFor, events, tokenCache,
                   projectCache, ret,
                   settings, model, fallbackEnabled, attempt, endpoint,
                   lastError, error, wakeAt, result, depth, statuses, resets>>

\* pickStickyAccount returned {account: null, waitMs > 0}: await sleep(waitMs)
PickWait ==
    /\ pc = "pick"
    /\ attempt < MaxAttempts
    /\ LET r == pickStickyAccount(accounts, currentIndex, model, now)
       IN  /\ r.account = NoAccount
           /\ r.waitMs > 0
           /\ accounts' = r.accounts
           /\ attemptLedger' = r.accounts
           /\ currentIndex' = r.newIndex
           /\ wakeAt' = now + r.waitMs
           /\ waitedFor' = ClampIndex(r.newIndex)
    /\ account' = NoAccount
    /\ pc' = "sleepSticky"
    /\ lastAll429' = FALSE
    /\ UNCHANGED <<retry, chart, events, tokenCache, projectCache, ret,
                   settings, model, fallbackEnabled, attempt, endpoint,
                   lastError, error, result, depth, statuses, resets>>

\* pickStickyAccount returned {account: null, waitMs: 0}
PickNone ==
    /\ pc = "pick"
    /\ attempt < MaxAttempts
    /\ LET r == pickStickyAccount(accounts, currentIndex, model, now)
       IN  /\ r.account = NoAccount
           /\ r.waitMs = 0
           /\ accounts' = r.accounts
           /\ attemptLedger' = r.accounts
           /\ currentIndex' = r.newIndex
    /\ account' = NoAccount
    /\ pc' = "noAccount"
    /\ lastAll429' = FALSE
    /\ UNCHANGED <<retry, chart, waitedFor, events, tokenCache,
                   projectCache, ret,
                   settings, model, fallbackEnabled, attempt, endpoint,
                   lastError, error, wakeAt, result, depth, statuses, resets>>

\* the sticky sleep is over: clearExpiredLimits(); getCurrentStickyAccount(model)
WakeSticky ==
    /\ pc = "sleepSticky"
    /\ now >= wakeAt
    /\ LET r == getCurrentStickyAccount(clearExpiredLimits(accounts, now),
                                        currentIndex, model, now)
       IN  /\ accounts' = r.accounts
           /\ currentIndex' = r.newIndex
           /\ IF r.account # NoAccount
              THEN BeginAttempt(r.accounts, r.account)
              ELSE /\ account' = NoAccount
                   /\ attemptLedger' = r.accounts
                   /\ pc' = "noAccount"
    /\ waitedFor' = NoAccount
    /\ UNCHANGED <<retry, chart, events, tokenCache, projectCache, ret,
                   settings, model, fallbackEnabled, attempt, endpoint,
                   lastError, error, wakeAt, result, depth, statuses, resets,
                   lastAll429>>

\* all accounts rate-limited, the wait exceeds the cap: throw RESOURCE_EXHAUSTED
AllLimitedFail ==
    /\ pc = "noAccount"
    /\ isAllRateLimited(accounts, model, now)
    /\ getMinWaitTimeMs(accounts, model, now) > MAX_WAIT_BEFORE_ERROR_MS
    /\ pc' = "done"
    /\ result' = [NoResult EXCEPT !.kind = "ResourceExhausted",
                    !.resetAt = now + getMinWaitTimeMs(accounts, model, now)]
    /\ UNCHANGED <<retry, chart, waitedFor, events, tokenCache,
                   projectCache, ret,
                   mgrVars, model, fallbackEnabled, attempt, account,
                   endpoint, lastError, error, wakeAt, depth, histVars>>

\* a plausible slip: the wait is slept whatever its length
AllLimitedWait_uncapped ==
    /\ pc = "noAccount"
    /\ isAllRateLimited(accounts, model, now)
    /\ wakeAt' = now + getMinWaitTimeMs(accounts, model, now)
    /\ pc' = "sleepAll"
    /\ UNCHANGED <<retry, chart, waitedFor, events, tokenCache,
                   projectCache, ret,
                   mgrVars, model, fallbackEnabled, attempt, account,
                   endpoint, lastError, error, result, depth, histVars>>

\* all accounts rate-limited, the wait is within the cap: await sleep(allWaitMs)
AllLimitedWait ==
    /\ pc = "noAccount"
    /\ isAllRateLimited(accounts, model, now)
    /\ getMinWaitTimeMs(accounts, model, now) <= MAX_WAIT_BEFORE_ERROR_MS
    /\ wakeAt' = now + getMinWaitTimeMs(accounts, model, now)
    /\ pc' = "sleepAll"
    /\ UNCHANGED <<retry, chart, waitedFor, events, tokenCache,
                   projectCache, ret,
                   mgrVars, model, fallbackEnabled, attempt, account,
                   endpoint, lastError, error, result, depth, histVars>>

\* not all accounts are rate-limited, and there is no account
NotAllLimited ==
    /\ pc = "noAccount"
    /\ ~isAllRateLimited(accounts, model, now)
    /\ pc' = "exhausted"
    /\ UNCHANGED <<retry, chart, waitedFor, events, tokenCache,
                   projectCache, ret,
                   mgrVars, model, fallbackEnabled, attempt, account,
                   endpoint, lastError, error, wakeAt, result, depth, histVars>>

\* the all-limited sleep is over: clearExpiredLimits(); pickNext(model)
WakeAll ==
    /\ pc = "sleepAll"
    /\ now >= wakeAt
    /\ LET r == pickNext(clearExpiredLimits(accounts, now), currentIndex,
                         model, now)
       IN  /\ accounts' = r.accounts
           /\ currentIndex' = r.newIndex
           /\ IF r.account # NoAccount
              THEN BeginAttempt(r.accounts, r.account)
              ELSE /\ account' = NoAccount
                   /\ attemptLedger' = r.accounts
                   /\ pc' = "exhausted"
    /\ UNCHANGED <<retry, chart, waitedFor, events, tokenCache,
                   projectCache, ret,
                   settings, model, fallbackEnabled, attempt, endpoint,
                   lastError, error, wakeAt, result, depth, statuses, resets,
                   lastAll429>>

\* a plausible slip: the recursive call inherits fallbackEnabled
Fallback_keepsFlag ==
    /\ pc = "exhausted"
    /\ fallbackEnabled
    /\ getFallbackModel(model) # ""
    /\ model' = getFallbackModel(model)
    /\ fallbackEnabled' = fallbackEnabled
    /\ attempt' = 0
    /\ depth' = depth + 1
    /\ pc' = "pick"
    /\ UNCHANGED <<retry, chart, waitedFor, events, tokenCache,
                   projectCache, ret,
                   mgrVars, account, endpoint, lastError, error, wakeAt,
                   result, histVars>>

\* return await sendMessage({...request, model: fallbackModel}, manager, false)
Fallback ==
    /\ pc = "exhausted"
    /\ fallbackEnabled
    /\ getFallbackModel(model) # ""
    /\ model' = getFallbackModel(model)
    /\ fallbackEnabled' = FALSE
    /\ attempt' = 0
    /\ depth' = depth + 1
    /\ pc' = "pick"
    /\ UNCHANGED <<retry, chart, waitedFor, events, tokenCache,
                   projectCache, ret,
                   mgrVars, account, endpoint, lastError, error, wakeAt,
                   result, histVars>>

\* throw new Error('No accounts available')
NoAccounts ==
    /\ pc = "exhausted"
    /\ ~(fallbackEnabled /\ getFallbackModel(model) # "")
    /\ pc' = "done"
    /\ result' = [NoResult EXCEPT !.kind = "NoAccounts"]
    /\ UNCHANGED <<retry, chart, waitedFor, events, tokenCache,
                   projectCache, ret,
                   mgrVars, model, fallbackEnabled, attempt, account,
                   endpoint, lastError, error, wakeAt, depth, histVars>>

-----------------------------------------------------------------------------
(* The try block: token, project, then the endpoint loop.  The token cache  *)
(* is followed in TokenSpec; here the token exchange may be made, and fail, *)
(* at any attempt, as it does when the entry is missing, cleared or old.    *)

\* a plausible slip: the loop counter is not advanced
EndAttempt_sameAttempt(accts) ==
    /\ attempt' = attempt
    /\ statuses' = <<>>
    /\ resets' = <<>>
    /\ attemptLedger' = accts
    /\ lastError' = NoError
    /\ error' = NoError
    /\ endpoint' = 1
    /\ wakeAt' = NullTime
    /\ pc' = "pick"

\* the attempt is over and the retry loop continues with its next iteration
EndAttempt(accts) ==
    /\ attempt' = attempt + 1
    /\ statuses' = <<>>
    /\ resets' = <<>>
    /\ attemptLedger' = accts
    /\ lastError' = NoError
    /\ error' = NoError
    /\ endpoint' = 1
    /\ wakeAt' = NullTime
    /\ pc' = "pick"

\* every endpoint of the attempt answered 429
All429(sts) ==
    /\ sts # <<>>
    /\ \A k \in 1 .. Len(sts) : sts[k] = "429"

\* the try block is left by a throw: its locals (lastError, the loop) are gone
LeaveTry(e, all429) ==
    /\ error' = e
    /\ lastError' = NoError
    /\ endpoint' = 1
    /\ statuses' = <<>>
    /\ resets' = <<>>
    /\ lastAll429' = all429
    /\ pc' = "catch"

\* getTokenForAccount and getProjectForAccount returned
TokenOk ==
    /\ pc = "token"
    /\ pc' = "fetch"
    /\ endpoint' = 1
    /\ lastError' = NoError
    /\ UNCHANGED <<retry, chart, waitedFor, events, tokenCache,
                   projectCache, ret,
                   mgrVars, model, fallbackEnabled, attempt, account,
                   error, wakeAt, result, depth, histVars>>

\* the refresh failed, not for a network reason: onInvalid(email, message),
\* throw AUTH_INVALID
TokenInvalid(x) ==
    /\ pc = "token"
    /\ x # "network"
    /\ accounts' = markInvalid(accounts, account, x)
    /\ LeaveTry(Err("AuthInvalid", x), FALSE)
    /\ UNCHANGED <<retry, chart, waitedFor, events, tokenCache,
                   projectCache, ret,
                   currentIndex, settings, model, fallbackEnabled, attempt,
                   account, wakeAt, result, depth, attemptLedger>>

\* a plausible slip: a network failure invalidates the account as well
TokenNetwork_invalidates ==
    /\ pc = "token"
    /\ accounts' = markInvalid(accounts, account, "network")
    /\ LeaveTry(Err("AuthNetwork", "network"), FALSE)
    /\ UNCHANGED <<retry, chart, waitedFor, events, tokenCache, projectCache,
                   ret, currentIndex, settings, model,
                   fallbackEnabled, attempt, account, wakeAt, result, depth,
                   attemptLedger>>

\* the refresh failed for a network reason: throw AUTH_NETWORK_ERROR
TokenNetwork ==
    /\ pc = "token"
    /\ LeaveTry(Err("AuthNetwork", "network"), FALSE)
    /\ UNCHANGED <<retry, chart, waitedFor, events, tokenCache,
                   projectCache, ret,
                   mgrVars, model, fallbackEnabled, attempt, account,
                   wakeAt, result, depth, attemptLedger>>

\* the for-of loop over the endpoints moves on ("continue"), or is left
NextEndpoint ==
    IF endpoint < NumEndpoints
    THEN /\ endpoint' = endpoint + 1
         /\ pc' = "fetch"
    ELSE /\ endpoint' = endpoint
         /\ pc' = "afterEndpoints"

\* response.ok: the response is parsed and returned
Resp200 ==
    /\ pc = "fetch"
    /\ statuses' = Append(statuses, "200")
    /\ pc' = "done"
    /\ result' = [NoResult EXCEPT !.kind = "response", !.endpoint = endpoint,
                                  !.account = account]
    /\ UNCHANGED <<retry, chart, waitedFor, events, tokenCache,
                   projectCache, ret,
                   mgrVars, model, fallbackEnabled, attempt, account,
                   endpoint, lastError, error, wakeAt, depth, resets,
                   attemptLedger, lastAll429>>

\* clearTokenCache(tokenCache, email); NoAccount stands for email = null
clearTokenCache(cache, e) ==
    [i \in Idx |-> IF e = NoAccount \/ e = i THEN NoToken ELSE cache[i]]

\* clearProjectCache(projectCache, email)
clearProjectCache(cache, e) ==
    [i \in Idx |-> IF e = NoAccount \/ e = i THEN NoProject ELSE cache[i]]

\* a plausible slip: the caches are left as they are
Resp401_keepsCaches ==
    /\ pc = "fetch"
    /\ statuses' = Append(statuses, "401")
    /\ NextEndpoint
    /\ UNCHANGED <<retry, chart, waitedFor, events, tokenCache,
                   projectCache, ret,
                   mgrVars, model, fallbackEnabled, attempt, account,
                   lastError, error, wakeAt, result, depth, resets,
                   attemptLedger, lastAll429>>

\* response.status === 401: clearTokenCache(account.email),
\* clearProjectCache(account.email), continue
Resp401 ==
    /\ pc = "fetch"
    /\ statuses' = Append(statuses, "401")
    /\ tokenCache' = clearTokenCache(tokenCache, account)
    /\ projectCache' = clearProjectCache(projectCache, account)
    /\ NextEndpoint
    /\ UNCHANGED <<retry, chart, waitedFor, events,
                   ret, mgrVars, model, fallbackEnabled, attempt, account,
                   lastError, error, wakeAt, result, depth, resets,
                   attemptLedger, lastAll429>>

\* a plausible slip: the account is marked at the first 429 of an endpoint
Resp429_marks(resetMs) ==
    /\ pc = "fetch"
    /\ statuses' = Append(statuses, "429")
    /\ resets' = Append(resets, resetMs)
    /\ lastError' = Keep429(lastError, resetMs)
    /\ accounts' = markRateLimited(accounts, account, resetMs, settings, model, now)
    /\ NextEndpoint
    /\ UNCHANGED <<retry, chart, waitedFor, events, tokenCache,
                   projectCache, ret,
                   currentIndex, settings, model, fallbackEnabled, attempt,
                   account, error, wakeAt, result, depth, attemptLedger,
                   lastAll429>>

\* response.status === 429: resetMs = parseResetTime(response, errorText);
\* remember the 429 with the smallest reset, continue
Resp429(resetMs) ==
    /\ pc = "fetch"
    /\ statuses' = Append(statuses, "429")
    /\ resets' = Append(resets, resetMs)
    /\ lastError' = Keep429(lastError, resetMs)
    /\ NextEndpoint
    /\ UNCHANGED <<retry, chart, waitedFor, events, tokenCache,
                   projectCache, ret,
                   mgrVars, model, fallbackEnabled, attempt, account,
                   error, wakeAt, result, depth, attemptLedger, lastAll429>>

\* another status >= 400 below 500: lastError = new Error('API error ...')
Resp4xx(x) ==
    /\ pc = "fetch"
    /\ statuses' = Append(statuses, "4xx")
    /\ lastError' = Err("ApiError4xx", x)
    /\ NextEndpoint
    /\ UNCHANGED <<retry, chart, waitedFor, events, tokenCache,
                   projectCache, ret,
                   mgrVars, model, fallbackEnabled, attempt, account,
                   error, wakeAt, result, depth, resets, attemptLedger,
                   lastAll429>>

\* status >= 500: lastError = new Error('API error 5..'), await sleep(1000)
Resp5xx(x) ==
    /\ pc = "fetch"
    /\ statuses' = Append(statuses, "5xx")
    /\ lastError' = Err("ApiError5xx", x)
    /\ wakeAt' = now + RETRY_PAUSE_MS
    /\ pc' = "pause5xx"
    /\ UNCHANGED <<retry, chart, waitedFor, events, tokenCache,
                   projectCache, ret,
                   mgrVars, model, fallbackEnabled, attempt, account,
                   endpoint, error, result, depth, resets, attemptLedger,
                   lastAll429>>

\* the pause after a 5xx is over: continue with the next endpoint
Wake5xx ==
    /\ pc = "pause5xx"
    /\ now >= wakeAt
    /\ NextEndpoint
    /\ UNCHANGED <<retry, chart, waitedFor, events, tokenCache,
                   projectCache, ret,
                   mgrVars, model, fallbackEnabled, attempt, account,
                   lastError, error, wakeAt, result, depth, histVars>>

\* fetch (or the parsing of the response) threw: a rate-limit error is thrown
\* on to the per-account catch block, any other is remembered
FetchThrows(x) ==
    /\ pc = "fetch"
    /\ IF isRateLimitError(Err("Thrown", x))
       THEN LeaveTry(Err("Thrown", x), FALSE)
       ELSE /\ statuses' = Append(statuses, "throw")
            /\ lastError' = Err("Thrown", x)
            /\ NextEndpoint
            /\ UNCHANGED <<error, resets, lastAll429>>
    /\ UNCHANGED <<retry, chart, waitedFor, events, tokenCache,
                   projectCache, ret,
                   mgrVars, model, fallbackEnabled, attempt, account,
                   wakeAt, result, depth, attemptLedger>>

\* the loop ended with lastError === null: the try block ends normally and
\* the retry loop goes to its next iteration
NoErrorRecorded ==
    /\ pc = "afterEndpoints"
    /\ lastError.kind = "none"
    /\ EndAttempt(accounts)
    /\ UNCHANGED <<retry, chart, waitedFor, events, tokenCache,
                   projectCache, ret,
                   mgrVars, model, fallbackEnabled, account, result, depth,
                   lastAll429>>

\* lastError.is429: markRateLimited(email, lastError.resetMs, model), throw
\* new Error('Rate limited: ...')
MarkAndThrow ==
    /\ pc = "afterEndpoints"
    /\ lastError.kind = "is429"
    /\ accounts' = markRateLimited(accounts, account, lastError.resetMs,
                                   settings, model, now)
    /\ LeaveTry(Err("RateLimited", "plain"), All429(statuses))
    /\ UNCHANGED <<retry, chart, waitedFor, events, tokenCache,
                   projectCache, ret,
                   currentIndex, settings, model, fallbackEnabled, attempt,
                   account, wakeAt, result, depth, attemptLedger>>

\* a plausible slip: the account is marked whatever the recorded error is
Rethrow_marks ==
    /\ pc = "afterEndpoints"
    /\ lastError.kind \notin {"none", "is429"}
    /\ accounts' = markRateLimited(accounts, account, lastError.resetMs,
                                   settings, model, now)
    /\ LeaveTry(lastError, FALSE)
    /\ UNCHANGED <<retry, chart, waitedFor, events, tokenCache, projectCache,
                   ret, currentIndex, settings, model,
                   fallbackEnabled, attempt, account, wakeAt, result, depth,
                   attemptLedger>>

\* throw lastError
Rethrow ==
    /\ pc = "afterEndpoints"
    /\ lastError.kind \notin {"none", "is429"}
    /\ LeaveTry(lastError, FALSE)
    /\ UNCHANGED <<retry, chart, waitedFor, events, tokenCache,
                   projectCache, ret,
                   mgrVars, model, fallbackEnabled, attempt, account,
                   wakeAt, result, depth, attemptLedger>>

-----------------------------------------------------------------------------
(* The catch block of the attempt *)

\* isRateLimitError(error) or isAuthError(error): continue
CatchContinue ==
    /\ pc = "catch"
    /\ isRateLimitError(error) \/ isAuthError(error)
    /\ EndAttempt(accounts)
    /\ UNCHANGED <<retry, chart, waitedFor, events, tokenCache,
                   projectCache, ret,
                   mgrVars, model, fallbackEnabled, account, result, depth,
                   lastAll429>>

\* a 5xx message: pickNext(model), continue
Catch5xx ==
    /\ pc = "catch"
    /\ ~isRateLimitError(error) /\ ~isAuthError(error)
    /\ Is5xxMessage(error)
    /\ LET r == pickNext(accounts, currentIndex, model, now)
       IN  /\ accounts' = r.accounts
           /\ currentIndex' = r.newIndex
           /\ EndAttempt(r.accounts)
    /\ UNCHANGED <<retry, chart, waitedFor, events, tokenCache,
                   projectCache, ret,
                   settings, model, fallbackEnabled, account, result, depth,
                   lastAll429>>

\* isNetworkError(error): await sleep(1000)
CatchNetwork ==
    /\ pc = "catch"
    /\ ~isRateLimitError(error) /\ ~isAuthError(error) /\ ~Is5xxMessage(error)
    /\ isNetworkError(error)
    /\ wakeAt' = now + RETRY_PAUSE_MS
    /\ pc' = "pauseNet"
    /\ UNCHANGED <<retry, chart, waitedFor, events, tokenCache,
                   projectCache, ret,
                   mgrVars, model, fallbackEnabled, attempt, account,
                   endpoint, lastError, error, result, depth, histVars>>

\* the pause is over: pickNext(model), continue
WakeNet ==
    /\ pc = "pauseNet"
    /\ now >= wakeAt
    /\ LET r == pickNext(accounts, currentIndex, model, now)
       IN  /\ accounts' = r.accounts
           /\ currentIndex' = r.newIndex
           /\ EndAttempt(r.accounts)
    /\ UNCHANGED <<retry, chart, waitedFor, events, tokenCache,
                   projectCache, ret,
                   settings, model, fallbackEnabled, account, result, depth,
                   lastAll429>>

\* throw error
CatchThrow ==
    /\ pc = "catch"
    /\ ~isRateLimitError(error) /\ ~isAuthError(error) /\ ~Is5xxMessage(error)
    /\ ~isNetworkError(error)
    /\ pc' = "done"
    /\ result' = [NoResult EXCEPT !.kind = "error", !.account = account]
    /\ UNCHANGED <<retry, chart, waitedFor, events, tokenCache,
                   projectCache, ret,
                   mgrVars, model, fallbackEnabled, attempt, account,
                   endpoint, lastError, error, wakeAt, depth, histVars>>

Next ==
    \/ Tick
    \/ \E m \in Models, fb \in BOOLEAN : Start(m, fb)
    \/ MaxRetriesExceeded
    \/ PickAccount
    \/ PickWait
    \/ PickNone
    \/ WakeSticky
    \/ AllLimitedFail
    \/ AllLimitedWait
    \/ NotAllLimited
    \/ WakeAll
    \/ Fallback
    \/ NoAccounts
    \/ TokenOk
    \/ \E x \in Texts : TokenInvalid(x)
    \/ TokenNetwork
    \/ Resp200
    \/ Resp401
    \/ \E r \in ResetValues : Resp429(r)
    \/ \E x \in Texts : Resp4xx(x)
    \/ \E x \in Texts : Resp5xx(x)
    \/ \E x \in Texts : FetchThrows(x)
    \/ Wake5xx
    \/ NoErrorRecorded
    \/ MarkAndThrow
    \/ Rethrow
    \/ CatchContinue
    \/ Catch5xx
    \/ CatchNetwork
    \/ WakeNet
    \/ CatchThrow

Spec == Init /\ [][Next]_vars

\* a request arrives while the ledger holds no record and the first account
\* is the sticky one
LiveInit ==
    /\ accounts \in [Idx -> {a \in LoadedAccounts :
                        \A m \in Models : a.modelRateLimits[m] = NoLimit}]
    /\ accounts[0].enabled
    /\ currentIndex = 0
    /\ settings = NoReset
    /\ pc = "idle"
    /\ NoCall

\* every sleep, token exchange and HTTP call returns, and the clock advances
LiveSpec == LiveInit /\ [][Next]_vars /\ WF_vars(Next)

-----------------------------------------------------------------------------
(* The AccountManager by itself: its public methods, called in any order by *)
(* the handlers of any number of requests, on a loaded state.  The methods  *)
(* are synchronous: a call returns, and its caller takes what it returned,  *)
(* before the next call starts.                                             *)

\* saveToDisk(): saveAccounts(configPath, accounts, settings, activeIndex) is
\* handed the value #currentIndex holds when saveToDisk() is called and writes
\* it as the activeIndex of the file
saveToDisk(index) == index

\* the activeIndex a saved file can hold: it may point past the end of a list
\* that has shrunk since it was saved
PersistedIndices == 0 .. NumAccounts

\* storage.js: the activeIndex loadAccounts hands to initialize()
loadAccounts(activeIndex) ==
    IF activeIndex >= NumAccounts THEN 0 ELSE activeIndex

\* initialize() has loaded the accounts
MgrInit ==
    /\ accounts \in [Idx -> LoadedAccounts]
    /\ currentIndex \in {loadAccounts(i) : i \in PersistedIndices}
    /\ settings \in {NoReset, MAX_WAIT_BEFORE_ERROR_MS}
    /\ pc = "manager"
    /\ NoCall

\* AccountManager.pickStickyAccount(modelId)
CallPickStickyAccount(m) ==
    /\ pc = "manager"
    /\ ret = NoRet
    /\ LET r == pickStickyAccount(accounts, currentIndex, m, now)
       IN  /\ accounts' = r.accounts
           /\ currentIndex' = r.newIndex
           /\ ret' = [op |-> "pickStickyAccount", model |-> m,
                      account |-> r.account, waitMs |-> r.waitMs,
                      arg |-> NoReset, exchanged |-> FALSE, thrown |-> NoError,
                      saved |-> IF r.account # NoAccount
                                THEN saveToDisk(currentIndex) ELSE NoSave,
                      touched |-> Touched(r.account), cleared |-> 0,
                      project |-> NoProject, discovered |-> FALSE]
    /\ UNCHANGED <<retry, chart, waitedFor, events, tokenCache, projectCache,
                   settings, callVars, histVars>>

\* AccountManager.pickNext(modelId)
CallPickNext(m) ==
    /\ pc = "manager"
    /\ ret = NoRet
    /\ LET r == pickNext(accounts, currentIndex, m, now)
       IN  /\ accounts' = r.accounts
           /\ currentIndex' = r.newIndex
           /\ ret' = [op |-> "pickNext", model |-> m,
                      account |-> r.account, waitMs |-> 0,
                      arg |-> NoReset, exchanged |-> FALSE, thrown |-> NoError,
                      saved |-> IF r.account # NoAccount
                                THEN saveToDisk(currentIndex) ELSE NoSave,
                      touched |-> Touched(r.account), cleared |-> 0,
                      project |-> NoProject, discovered |-> FALSE]
    /\ UNCHANGED <<retry, chart, waitedFor, events, tokenCache, projectCache,
                   settings, callVars, histVars>>

\* AccountManager.getCurrentStickyAccount(modelId)
CallGetCurrentStickyAccount(m) ==
    /\ pc = "manager"
    /\ ret = NoRet
    /\ LET r == getCurrentStickyAccount(accounts, currentIndex, m, now)
       IN  /\ accounts' = r.accounts
           /\ currentIndex' = r.newIndex
           /\ ret' = [op |-> "getCurrentStickyAccount", model |-> m,
                      account |-> r.account, waitMs |-> 0,
                      arg |-> NoReset, exchanged |-> FALSE, thrown |-> NoError,
                      saved |-> IF r.account # NoAccount
                                THEN saveToDisk(currentIndex) ELSE NoSave,
                      touched |-> Touched(r.account), cleared |-> 0,
                      project |-> NoProject, discovered |-> FALSE]
    /\ UNCHANGED <<retry, chart, waitedFor, events, tokenCache, projectCache,
                   settings, callVars, histVars>>

\* AccountManager.markRateLimited(email, resetMs, modelId)
CallMarkRateLimited(i, resetMs, m) ==
    /\ pc = "manager"
    /\ ret = NoRet
    /\ accounts' = markRateLimited(accounts, i, resetMs, settings, m, now)
    /\ ret' = [op |-> "markRateLimited", model |-> m, account |-> i,
               waitMs |-> 0, arg |-> resetMs, exchanged |-> FALSE,
               thrown |-> NoError, saved |-> saveToDisk(currentIndex),
               touched |-> {}, cleared |-> 0,
               project |-> NoProject, discovered |-> FALSE]
    /\ UNCHANGED <<retry, chart, waitedFor, events, tokenCache, projectCache,
                   currentIndex, settings, callVars, histVars>>

\* AccountManager.markInvalid(email), reason taking its default
CallMarkInvalid(i) ==
    /\ pc = "manager"
    /\ ret = NoRet
    /\ accounts' = markInvalid(accounts, i, UnknownError)
    /\ UNCHANGED <<retry, chart, waitedFor, events, tokenCache,
                   projectCache, ret,
                   currentIndex, settings, callVars, histVars>>

\* AccountManager.clearExpiredLimits()
CallClearExpiredLimits ==
    /\ pc = "manager"
    /\ ret = NoRet
    /\ accounts' = clearExpiredLimits(accounts, now)
    /\ ret' = [op |-> "clearExpiredLimits", model |-> "", account |-> NoAccount,
               waitMs |-> 0, arg |-> NoReset, exchanged |-> FALSE,
               thrown |-> NoError,
               saved |-> IF clearExpiredLimits(accounts, now) # accounts
                         THEN saveToDisk(currentIndex) ELSE NoSave,
               touched |-> {}, cleared |-> ClearedCount(accounts, now),
               project |-> NoProject, discovered |-> FALSE]
    /\ UNCHANGED <<retry, chart, waitedFor, events, tokenCache, projectCache,
                   currentIndex, settings, callVars, histVars>>

\* AccountManager.reload(): initialize() again, from what the file holds now,
\* which is what saveToDisk wrote at the last mutation with the edits made
\* from outside since: the enabled flags and the activeIndex
CallReload(enabledFlags, activeIndex) ==
    /\ pc = "manager"
    /\ ret = NoRet
    /\ accounts' = clearExpiredLimits(
           [i \in Idx |-> [accounts[i] EXCEPT !.enabled = enabledFlags[i]]],
           now)
    /\ settings' = settings
    /\ currentIndex' = loadAccounts(activeIndex)
    /\ ret' = [op |-> "reload", model |-> "", account |-> NoAccount,
               waitMs |-> 0, arg |-> activeIndex, exchanged |-> FALSE,
               thrown |-> NoError,
               saved |-> IF clearExpiredLimits(accounts, now) # accounts
                         THEN saveToDisk(loadAccounts(activeIndex))
                         ELSE NoSave,
               touched |-> {}, cleared |-> 0,
               project |-> NoProject, discovered |-> FALSE]
    /\ UNCHANGED <<retry, chart, waitedFor, events, tokenCache, projectCache, callVars, histVars>>

\* the caller takes what the call returned
TakeResult ==
    /\ pc = "manager"
    /\ ret # NoRet
    /\ ret' = NoRet
    /\ UNCHANGED <<retry, chart, waitedFor, events, tokenCache, projectCache,
                   mgrVars, callVars, histVars>>

MgrNext ==
    \/ Tick
    \/ \E m \in Models : CallPickStickyAccount(m)
    \/ \E m \in Models : CallPickNext(m)
    \/ \E m \in Models : CallGetCurrentStickyAccount(m)
    \/ \E i \in Idx, r \in ResetValues, m \in Models :
          CallMarkRateLimited(i, r, m)
    \/ \E i \in Idx : CallMarkInvalid(i)
    \/ CallClearExpiredLimits
    \/ \E e \in [Idx -> BOOLEAN], i \in PersistedIndices : CallReload(e, i)
    \/ TakeResult

MgrSpec == MgrInit /\ [][MgrNext]_vars

-----------------------------------------------------------------------------
(* credentials.js: the token cache of the AccountManager.  The accounts are *)
(* OAuth accounts with a refresh token; refreshAccessToken answers with a   *)
(* token, or throws an error whose message is of one of the kinds of Texts. *)

Outcomes == {"token"} \cup Texts

\* a plausible slip: an entry whose age has reached the interval is still used
FreshToken_inclusive(entry, t) ==
    entry.cached /\ t - entry.extractedAt <= TOKEN_REFRESH_INTERVAL_MS

\* cached && (Date.now() - cached.extractedAt) < TOKEN_REFRESH_INTERVAL_MS
FreshToken(entry, t) ==
    entry.cached /\ t - entry.extractedAt < TOKEN_REFRESH_INTERVAL_MS

\* a plausible slip: every failed refresh invalidates the account
getTokenForAccount_alwaysInvalid(accts, cache, i, outcome, t) ==
    IF FreshToken(cache[i], t)
    THEN [accounts |-> accts, cache |-> cache, exchanged |-> FALSE,
          thrown |-> NoError]
    ELSE IF outcome = "token"
    THEN [accounts |-> [accts EXCEPT ![i].isInvalid = FALSE,
                                     ![i].invalidReason = NoReason],
          cache |-> [cache EXCEPT ![i] =
                        [cached |-> TRUE, extractedAt |-> t]],
          exchanged |-> TRUE, thrown |-> NoError]
    ELSE IF isNetworkError(Err("Thrown", outcome))
    THEN [accounts |-> markInvalid(accts, i, outcome), cache |-> cache,
          exchanged |-> TRUE, thrown |-> Err("AuthNetwork", outcome)]
    ELSE [accounts |-> markInvalid(accts, i, outcome), cache |-> cache,
          exchanged |-> TRUE, thrown |-> Err("AuthInvalid", outcome)]

\* getTokenForAccount(account, tokenCache, onInvalid, onSave) for the account
\* at position i: the cache and the account list as the call leaves them,
\* whether refreshAccessToken was called, and the error the call threw
getTokenForAccount(accts, cache, i, outcome, t) ==
    IF FreshToken(cache[i], t)
    THEN [accounts |-> accts, cache |-> cache, exchanged |-> FALSE,
          thrown |-> NoError]
    ELSE IF outcome = "token"
    THEN [accounts |-> [accts EXCEPT ![i].isInvalid = FALSE,
                                     ![i].invalidReason = NoReason],
          cache |-> [cache EXCEPT ![i] =
                        [cached |-> TRUE, extractedAt |-> t]],
          exchanged |-> TRUE, thrown |-> NoError]
    ELSE IF isNetworkError(Err("Thrown", outcome))
    THEN [accounts |-> accts, cache |-> cache, exchanged |-> TRUE,
          thrown |-> Err("AuthNetwork", outcome)]
    ELSE [accounts |-> markInvalid(accts, i, outcome), cache |-> cache,
          exchanged |-> TRUE, thrown |-> Err("AuthInvalid", outcome)]

\* the manager is initialized, no rate-limit record is held
TokenInit ==
    /\ accounts = NoLedger
    /\ currentIndex = 0
    /\ settings = NoReset
    /\ pc = "manager"
    /\ NoCall

\* AccountManager.getTokenForAccount(account)
CallGetTokenForAccount(i, outcome) ==
    /\ pc = "manager"
    /\ ret = NoRet
    /\ LET r == getTokenForAccount(accounts, tokenCache, i, outcome, now)
       IN  /\ accounts' = r.accounts
           /\ tokenCache' = r.cache
           /\ ret' = [op |-> "getTokenForAccount", model |-> "",
                      account |-> i, waitMs |-> 0, arg |-> NoReset,
                      exchanged |-> r.exchanged, thrown |-> r.thrown,
                      saved |-> IF r.exchanged
                                   /\ \/ outcome = "token" /\ accounts[i].isInvalid
                                      \/ r.thrown.kind = "AuthInvalid"
                                THEN saveToDisk(currentIndex) ELSE NoSave,
                      touched |-> {}, cleared |-> 0,
                      project |-> NoProject, discovered |-> FALSE]
    /\ UNCHANGED <<retry, chart, waitedFor, events, projectCache, currentIndex, settings,
                   callVars, histVars>>

\* AccountManager.clearTokenCache(email)
CallClearTokenCache(e) ==
    /\ pc = "manager"
    /\ ret = NoRet
    /\ tokenCache' = clearTokenCache(tokenCache, e)
    /\ ret' = [op |-> "clearTokenCache", model |-> "", account |-> e,
               waitMs |-> 0, arg |-> NoReset, exchanged |-> FALSE,
               thrown |-> NoError, saved |-> NoSave,
               touched |-> {}, cleared |-> 0,
               project |-> NoProject, discovered |-> FALSE]
    /\ UNCHANGED <<retry, chart, waitedFor, events, projectCache, mgrVars, callVars, histVars>>

TokenNext ==
    \/ Tick
    \/ \E i \in Idx, o \in Outcomes : CallGetTokenForAccount(i, o)
    \/ \E e \in Idx \cup {NoAccount} : CallClearTokenCache(e)
    \/ TakeResult

TokenSpec == TokenInit /\ [][TokenNext]_vars

-----------------------------------------------------------------------------
(* sendMessage with the token and project caches followed, against a        *)
(* backend that answers every request with 200 or 401: the credentials of   *)
(* an account are accepted or not, and no quota is involved.                *)

\* the project ids an account or an answer of loadCodeAssist can carry
ProjectIds == {"", "project-a", "project-b"}

DEFAULT_PROJECT_ID == "rising-fact-p41fc"

\* what the endpoints answer to loadCodeAssist, in the order of
\* ANTIGRAVITY_ENDPOINT_FALLBACKS: a string cloudaicompanionProject, or
\* NoProject (not ok, an exception, no project in the answer)
DiscoverAnswers == [1 .. NumEndpoints -> ProjectIds \cup {NoProject}]

\* a string used as a condition: undefined and '' are falsy
TruthyId(x) == x # NoProject /\ x # ""

\* discoverProject(token): the project of the first endpoint that names one,
\* DEFAULT_PROJECT_ID when none does
discoverProject(answers) ==
    IF \A k \in 1 .. NumEndpoints : answers[k] = NoProject
    THEN DEFAULT_PROJECT_ID
    ELSE answers[Min({k \in 1 .. NumEndpoints : answers[k] # NoProject})]

\* getProjectForAccount(account, token, projectCache) for the account at
\* position i: the cache as the call leaves it, the project id returned (the
\* cached entry, the projectId of the account, or what discoverProject
\* returned) and whether discoverProject was called
getProjectForAccount(cache, accts, i, answers) ==
    IF TruthyId(cache[i])
    THEN [cache |-> cache, project |-> cache[i], discovered |-> FALSE]
    ELSE IF TruthyId(accts[i].projectId)
    THEN [cache |-> [cache EXCEPT ![i] = accts[i].projectId],
          project |-> accts[i].projectId, discovered |-> FALSE]
    ELSE [cache |-> [cache EXCEPT ![i] = discoverProject(answers)],
          project |-> discoverProject(answers), discovered |-> TRUE]

\* sendMessage(request, accountManager, false) has been entered; no record
\* is held, and earlier calls may have left entries in the caches
AuthInit ==
    /\ accounts \in [Idx -> {a \in LoadedAccounts :
                        \A m \in Models : a.modelRateLimits[m] = NoLimit}]
    /\ currentIndex \in Idx
    /\ settings = NoReset
    /\ pc = "pick"
    /\ model = "gemini-3-pro-high"
    /\ fallbackEnabled = FALSE
    /\ attempt = 0
    /\ account = NoAccount
    /\ endpoint = 1
    /\ lastError = NoError
    /\ error = NoError
    /\ wakeAt = NullTime
    /\ result = NoResult
    /\ depth = 0
    /\ statuses = <<>>
    /\ resets = <<>>
    /\ attemptLedger = NoLedger
    /\ lastAll429 = FALSE
    /\ ret = NoRet
    /\ tokenCache \in [Idx -> {NoToken, [cached |-> TRUE, extractedAt |-> now]}]
    /\ projectCache = [i \in Idx |-> IF tokenCache[i].cached
                                      THEN "project-a" ELSE NoProject]
    /\ events = <<>>
    /\ waitedFor = NoAccount
    /\ retry = NoRetry
    /\ chart = NoChart

\* const token = await accountManager.getTokenForAccount(account);
\* const project = await accountManager.getProjectForAccount(account, token)
TokenFor(outcome, answers) ==
    /\ pc = "token"
    /\ LET r == getTokenForAccount(accounts, tokenCache, account, outcome, now)
       IN  /\ accounts' = r.accounts
           /\ tokenCache' = r.cache
           /\ IF r.thrown = NoError
              THEN /\ projectCache' =
                          getProjectForAccount(projectCache, r.accounts,
                                               account, answers).cache
                   /\ pc' = "fetch"
                   /\ endpoint' = 1
                   /\ lastError' = NoError
                   /\ UNCHANGED <<error, statuses, resets, lastAll429>>
              ELSE /\ projectCache' = projectCache
                   /\ LeaveTry(r.thrown, FALSE)
    /\ UNCHANGED <<retry, chart, waitedFor, events,
                   ret, currentIndex, settings, model, fallbackEnabled,
                   attempt, account, wakeAt, result, depth, attemptLedger>>

AuthNext ==
    \/ Tick
    \/ MaxRetriesExceeded
    \/ PickAccount
    \/ PickNone
    \/ AllLimitedWait
    \/ NotAllLimited
    \/ WakeAll
    \/ NoAccounts
    \/ \E o \in Outcomes, p \in DiscoverAnswers : TokenFor(o, p)
    \/ Resp200
    \/ Resp401
    \/ NoErrorRecorded
    \/ CatchContinue
    \/ CatchNetwork
    \/ WakeNet

AuthSpec == AuthInit /\ [][AuthNext]_vars

-----------------------------------------------------------------------------
(* sendMessageStream (cloudcode/streaming-handler.js): the same retry loop, *)
(* endpoint loop and catch block as sendMessage; an endpoint that answers   *)
(* 2xx is streamed to the caller with yield* streamSSEResponse(response),   *)
(* inside the try block of the endpoint loop.  events records, for each     *)
(* event yielded to the caller, the response it was read from.              *)

\* sendMessageStream(request, accountManager, false) has been entered while
\* the ledger holds no record
StreamInit ==
    /\ accounts \in [Idx -> {a \in LoadedAccounts :
                        \A m \in Models : a.modelRateLimits[m] = NoLimit}]
    /\ currentIndex \in Idx
    /\ settings = NoReset
    /\ pc = "pick"
    /\ NoCall

\* response.ok: yield* streamSSEResponse(response, model) begins
StreamOpen ==
    /\ pc = "fetch"
    /\ statuses' = Append(statuses, "200")
    /\ pc' = "stream"
    /\ UNCHANGED <<retry, chart, waitedFor, events, tokenCache,
                   projectCache, ret,
                   mgrVars, model, fallbackEnabled, attempt, account,
                   endpoint, lastError, error, wakeAt, result, depth, resets,
                   attemptLedger, lastAll429>>

\* streamSSEResponse yields an event, which yield* hands to the caller
StreamEvent ==
    /\ pc = "stream"
    /\ Len(events) < MaxEvents
    /\ events' = Append(events, <<attempt, endpoint>>)
    /\ UNCHANGED <<retry, chart, waitedFor, tokenCache, projectCache, ret,
                   mgrVars, callVars, histVars>>

\* the upstream closes: 'Stream completed', return
StreamEnd ==
    /\ pc = "stream"
    /\ pc' = "done"
    /\ result' = [NoResult EXCEPT !.kind = "response", !.endpoint = endpoint,
                                  !.account = account]
    /\ UNCHANGED <<retry, chart, waitedFor, events, tokenCache,
                   projectCache, ret,
                   mgrVars, model, fallbackEnabled, attempt, account,
                   endpoint, lastError, error, wakeAt, depth, histVars>>

\* reading the upstream body throws inside streamSSEResponse: the catch of
\* the endpoint loop takes the error as it takes one thrown by fetch
StreamFails(x) ==
    /\ pc = "stream"
    /\ IF isRateLimitError(Err("Thrown", x))
       THEN LeaveTry(Err("Thrown", x), FALSE)
       ELSE /\ lastError' = Err("Thrown", x)
            /\ NextEndpoint
            /\ UNCHANGED <<error, statuses, resets, lastAll429>>
    /\ UNCHANGED <<retry, chart, waitedFor, events, tokenCache,
                   projectCache, ret,
                   mgrVars, model, fallbackEnabled, attempt, account,
                   wakeAt, result, depth, attemptLedger>>

\* a status that is neither ok nor 401 nor 429 nor >= 400 (a 304, a 3xx
\* without Location): sendMessageStream has no `status >= 400` test, it
\* records 'API error <status>: <body>' and goes to the next endpoint
StreamRespBelow400(x) ==
    /\ pc = "fetch"
    /\ statuses' = Append(statuses, "3xx")
    /\ lastError' = Err("ApiErrorBelow400", x)
    /\ NextEndpoint
    /\ UNCHANGED <<retry, chart, waitedFor, events, tokenCache,
                   projectCache, ret,
                   mgrVars, model, fallbackEnabled, attempt, account,
                   error, wakeAt, result, depth, resets, attemptLedger,
                   lastAll429>>

StreamNext ==
    \/ Tick
    \/ MaxRetriesExceeded
    \/ PickAccount
    \/ PickWait
    \/ PickNone
    \/ WakeSticky
    \/ AllLimitedFail
    \/ AllLimitedWait
    \/ NotAllLimited
    \/ WakeAll
    \/ NoAccounts
    \/ TokenOk
    \/ \E x \in Texts : TokenInvalid(x)
    \/ TokenNetwork
    \/ StreamOpen
    \/ StreamEvent
    \/ StreamEnd
    \/ \E x \in Texts : StreamFails(x)
    \/ \E x \in Texts : StreamRespBelow400(x)
    \/ Resp401
    \/ \E r \in ResetValues : Resp429(r)
    \/ \E x \in Texts : Resp4xx(x)
    \/ \E x \in Texts : Resp5xx(x)
    \/ \E x \in Texts : FetchThrows(x)
    \/ Wake5xx
    \/ NoErrorRecorded
    \/ MarkAndThrow
    \/ Rethrow
    \/ CatchContinue
    \/ Catch5xx
    \/ CatchNetwork
    \/ WakeNet
    \/ CatchThrow

StreamSpec == StreamInit /\ [][StreamNext]_vars

-----------------------------------------------------------------------------
(* Two sendMessage calls for the same model on one AccountManager, without  *)
(* fallback.  The handlers run on one thread and give way at every await;   *)
(* while the call followed above is suspended, the other call runs its      *)
(* synchronous stretches: the selection at the head of its retry loop       *)
(* (message-handler.js:47) and, one await later, the marking of the account *)
(* it was given (message-handler.js:174).  ret holds what the selection of  *)
(* the other call returned until its attempt is over.                       *)

\* the awaits of the call followed after which it issues its next request
ConcAwaitPcs == {"token", "sleepSticky", "sleepAll", "pause5xx", "pauseNet"}

\* sendMessage(request, accountManager, false) has been entered while the
\* ledger holds no record
ConcInit ==
    /\ accounts \in [Idx -> {a \in LoadedAccounts :
                        \A m \in Models : a.modelRateLimits[m] = NoLimit}]
    /\ currentIndex \in Idx
    /\ settings = NoReset
    /\ pc = "pick"
    /\ NoCall

\* the other call: pickStickyAccount(model) returned an account
OtherPick ==
    /\ pc \in ConcAwaitPcs
    /\ ret = NoRet
    /\ LET r == pickStickyAccount(accounts, currentIndex, model, now)
       IN  /\ r.account # NoAccount
           /\ accounts' = r.accounts
           /\ currentIndex' = r.newIndex
           /\ ret' = [op |-> "pickStickyAccount", model |-> model,
                      account |-> r.account, waitMs |-> r.waitMs,
                      arg |-> NoReset, exchanged |-> FALSE, thrown |-> NoError,
                      saved |-> IF r.account # NoAccount
                                THEN saveToDisk(currentIndex) ELSE NoSave,
                      touched |-> Touched(r.account), cleared |-> 0,
                      project |-> NoProject, discovered |-> FALSE]
    /\ UNCHANGED <<retry, chart, waitedFor, events, tokenCache, projectCache,
                   settings, callVars, histVars>>

\* the other call: every endpoint answered 429, markRateLimited(email,
\* lastError.resetMs, model)
OtherMarks(resetMs) ==
    /\ pc \in ConcAwaitPcs
    /\ ret.op = "pickStickyAccount"
    /\ ret.account # NoAccount
    /\ accounts' = markRateLimited(accounts, ret.account, resetMs, settings,
                                   ret.model, now)
    /\ ret' = NoRet
    /\ UNCHANGED <<retry, chart, waitedFor, events, tokenCache, projectCache,
                   currentIndex, settings, callVars, histVars>>

\* the other call: its attempt ended without a mark (a response, an error)
OtherReturns ==
    /\ pc \in ConcAwaitPcs
    /\ ret.op = "pickStickyAccount"
    /\ ret' = NoRet
    /\ UNCHANGED <<retry, chart, waitedFor, events, tokenCache, projectCache,
                   mgrVars, callVars, histVars>>

ConcNext ==
    \/ Tick
    \/ MaxRetriesExceeded
    \/ PickAccount
    \/ PickWait
    \/ PickNone
    \/ WakeSticky
    \/ AllLimitedFail
    \/ AllLimitedWait
    \/ NotAllLimited
    \/ WakeAll
    \/ NoAccounts
    \/ TokenOk
    \/ \E x \in Texts : TokenInvalid(x)
    \/ TokenNetwork
    \/ Resp200
    \/ Resp401
    \/ \E r \in ResetValues : Resp429(r)
    \/ \E x \in Texts : Resp4xx(x)
    \/ \E x \in Texts : Resp5xx(x)
    \/ \E x \in Texts : FetchThrows(x)
    \/ Wake5xx
    \/ NoErrorRecorded
    \/ MarkAndThrow
    \/ Rethrow
    \/ CatchContinue
    \/ Catch5xx
    \/ CatchNetwork
    \/ WakeNet
    \/ CatchThrow
    \/ OtherPick
    \/ \E r \in ResetValues : OtherMarks(r)
    \/ OtherReturns

ConcSpec == ConcInit /\ [][ConcNext]_vars

-----------------------------------------------------------------------------
(* Properties of sendMessage, checked under Spec *)

\* the remaining time of the record of account i for model m (0: no record)
Remaining(accts, i, m) ==
    IF accts[i].modelRateLimits[m].isRateLimited
    THEN accts[i].modelRateLimits[m].resetTime - now
    ELSE 0

\* C1: when, within one attempt, an earlier endpoint answers 429 and a later
\* one answers 2xx, the call returns the response of the later endpoint and
\* the attempt leaves every record of the ledger as it found it.
C1_EndpointFallback ==
    (/\ pc = "done"
     /\ result.kind = "response"
     /\ \E k \in 1 .. Len(statuses) : statuses[k] = "429")
    => /\ statuses[Len(statuses)] = "200"
       /\ result.endpoint = Len(statuses)
       /\ result.account = account
       /\ accounts = attemptLedger

C1_Witness ==
    /\ pc = "done"
    /\ result.kind = "response"
    /\ statuses = <<"429", "200">>
    /\ result.endpoint = 2

\* the reset durations the 429 responses of this attempt carried
ParsedResets == {resets[k] : k \in 1 .. Len(resets)} \ {NoReset}

\* C2: when every endpoint answers 429 in one attempt, exactly the record of
\* (selected account, requested model) becomes rate-limited with resetTime =
\* now + the minimum of the reset durations parsed from the responses, in
\* whichever order they came; every other record is unchanged.
C2_AllEndpoints429 ==
    [][(/\ pc = "afterEndpoints"
        /\ All429(statuses)
        /\ ParsedResets # {})
       => accounts' = [accounts EXCEPT ![account].modelRateLimits[model] =
              [isRateLimited |-> TRUE,
               resetTime |-> now + Min(ParsedResets)]]]_vars

\* some account other than a is usable for the model of the call
OtherUsable(a) ==
    \E j \in Idx \ {a} : isAccountUsable(accounts[j], model, now)

AllLimitedLong ==
    \A i \in Idx : /\ ActiveLimit(accounts[i], model, now)
                   /\ Remaining(accounts, i, model) > MAX_WAIT_BEFORE_ERROR_MS

\* the smallest remaining time of the records for the model of the call
MinRemaining == Min({Remaining(accounts, i, model) : i \in Idx})

\* C4: when every account is rate-limited on the requested model for longer
\* than MAX_WAIT_BEFORE_ERROR_MS, fallbackEnabled is true and a fallback
\* model is configured for the requested model, the call re-dispatches the
\* request with the fallback model.
C4_FallbackOnExhaustion ==
    [][(/\ pc = "noAccount"
        /\ AllLimitedLong
        /\ fallbackEnabled
        /\ getFallbackModel(model) # "")
       => /\ pc' = "pick"
          /\ model' = getFallbackModel(model)
          /\ depth' = depth + 1]_vars

\* C5: fallback is at most one level deep: a fallback dispatch is started
\* only by the top-level call, with the mapped model and fallbackEnabled =
\* false, and when the accounts are exhausted inside it the call fails with
\* 'No accounts available' instead of recursing, although the map is cyclic.
C5_OneLevelFallback ==
    [][/\ depth' <= 1
       /\ depth' = 1 => ~fallbackEnabled'
       /\ depth' # depth
          => /\ depth = 0
             /\ depth' = 1
             /\ model' = getFallbackModel(model)
       /\ (pc = "exhausted" /\ depth = 1)
          => /\ pc' = "done"
             /\ result'.kind = "NoAccounts"
             /\ depth' = 1]_vars

C5_Witness ==
    /\ pc = "done"
    /\ depth = 1
    /\ result.kind = "NoAccounts"
    /\ getFallbackModel(model) # ""

\* C6: with fallback disabled, when all accounts are actively rate-limited
\* for the model and the smallest remaining wait exceeds
\* MAX_WAIT_BEFORE_ERROR_MS, the selection returns no account and no wait,
\* and the call fails at once with RESOURCE_EXHAUSTED whose reset instant is
\* now + that smallest wait: no sleep is entered on the way.
C6_ResourceExhausted ==
    [][/\ (/\ pc = "pick"
           /\ attempt < MaxAttempts
           /\ ~fallbackEnabled
           /\ AllLimitedLong)
          => pc' = "noAccount"
       /\ (/\ pc = "noAccount"
           /\ ~fallbackEnabled
           /\ AllLimitedLong)
          => /\ pc' = "done"
             /\ result'.kind = "ResourceExhausted"
             /\ result'.resetAt = now + MinRemaining]_vars

C6_Witness ==
    /\ pc = "done"
    /\ attempt = 0
    /\ ~fallbackEnabled
    /\ AllLimitedLong
    /\ result.kind = "ResourceExhausted"
    /\ result.resetAt = now + MinRemaining
    /\ MinRemaining = MaxReset

\* the sticky account has an active limit for the model of the call with more
\* than the cap remaining
StickyLong ==
    /\ ActiveLimit(accounts[ClampIndex(currentIndex)], model, now)
    /\ Remaining(accounts, ClampIndex(currentIndex), model)
           > MAX_WAIT_BEFORE_ERROR_MS

\* C7 as stated: when the sticky account is rate-limited for the model with
\* more than MAX_WAIT_BEFORE_ERROR_MS remaining and no other account is
\* usable for the model, the call raises RESOURCE_EXHAUSTED without
\* sleeping, whatever the state of the other accounts.
C7_AsStated ==
    [][/\ (/\ pc = "pick"
           /\ attempt < MaxAttempts
           /\ StickyLong
           /\ ~OtherUsable(ClampIndex(currentIndex)))
          => pc' = "noAccount"
       /\ (/\ pc = "noAccount"
           /\ StickyLong
           /\ ~OtherUsable(ClampIndex(currentIndex)))
          => /\ pc' = "done"
             /\ result'.kind = "ResourceExhausted"]_vars

\* every account but the sticky one is invalid or actively limited for the
\* model, and no record for the model has a remaining time within the cap
OthersExhaustedLong ==
    /\ \A j \in Idx \ {ClampIndex(currentIndex)} :
           accounts[j].isInvalid \/ ActiveLimit(accounts[j], model, now)
    /\ \A i \in Idx :
           Remaining(accounts, i, model) \notin 1 .. MAX_WAIT_BEFORE_ERROR_MS

\* C7, amended: when the sticky account is rate-limited for the model with
\* more than MAX_WAIT_BEFORE_ERROR_MS remaining, every other account is
\* invalid or actively rate-limited for the model, and no account's record
\* for the model has a remaining time in (0, MAX_WAIT_BEFORE_ERROR_MS], the
\* call raises RESOURCE_EXHAUSTED without sleeping.
C7_StickyLongOthersExhausted ==
    [][/\ (/\ pc = "pick"
           /\ attempt < MaxAttempts
           /\ StickyLong
           /\ OthersExhaustedLong)
          => pc' = "noAccount"
       /\ (/\ pc = "noAccount"
           /\ StickyLong
           /\ OthersExhaustedLong)
          => /\ pc' = "done"
             /\ result'.kind = "ResourceExhausted"]_vars

C7_Witness ==
    /\ pc = "done"
    /\ result.kind = "ResourceExhausted"
    /\ StickyLong
    /\ OthersExhaustedLong
    /\ \E j \in Idx \ {ClampIndex(currentIndex)} :
           accounts[j].isInvalid /\ ~ActiveLimit(accounts[j], model, now)

-----------------------------------------------------------------------------
(* Properties of the selection, checked under MgrSpec *)

\* this step is a call pickStickyAccount(m) returning
PickStickyStep(m) ==
    /\ pc = "manager"
    /\ ret = NoRet
    /\ ret'.op = "pickStickyAccount"
    /\ ret'.model = m

\* the position of the sticky account
Sticky == ClampIndex(currentIndex)

\* no account but the sticky one is usable for model m
NoOtherUsable(m) ==
    \A j \in Idx \ {Sticky} : ~isAccountUsable(accounts[j], m, now)

\* the sticky account has an active limit for m with a remaining time within
\* the cap
StickyShort(m) ==
    /\ ActiveLimit(accounts[Sticky], m, now)
    /\ Remaining(accounts, Sticky, m) \in 1 .. MAX_WAIT_BEFORE_ERROR_MS

\* C8 as stated: when the sticky account has an active limit for the model
\* with remaining time t in (0, MAX_WAIT_BEFORE_ERROR_MS] and no other
\* account is usable for the model, pickStickyAccount returns account = null
\* with waitMs = t and leaves currentIndex unchanged.
C8_AsStated ==
    [][\A m \in Models :
        (PickStickyStep(m) /\ StickyShort(m) /\ NoOtherUsable(m))
        => /\ ret'.account = NoAccount
           /\ ret'.waitMs = Remaining(accounts, Sticky, m)
           /\ currentIndex' = currentIndex]_vars

\* C8, amended: when the sticky account is not invalid and has an active
\* limit for the model with remaining time t in (0,
\* MAX_WAIT_BEFORE_ERROR_MS], and no other account is usable for the model,
\* pickStickyAccount returns account = null with waitMs = t and leaves
\* currentIndex unchanged.
C8_WaitForValidSticky ==
    [][\A m \in Models :
        (/\ PickStickyStep(m)
         /\ ~accounts[Sticky].isInvalid
         /\ StickyShort(m)
         /\ NoOtherUsable(m))
        => /\ ret'.account = NoAccount
           /\ ret'.waitMs = Remaining(accounts, Sticky, m)
           /\ currentIndex' = currentIndex]_vars

C8_Witness ==
    /\ ret.op = "pickStickyAccount"
    /\ ret.account = NoAccount
    /\ ret.waitMs = MAX_WAIT_BEFORE_ERROR_MS
    /\ ~accounts[Sticky].isInvalid
    /\ StickyShort(ret.model)
    /\ NoOtherUsable(ret.model)
    /\ ret.waitMs = Remaining(accounts, Sticky, ret.model)

\* C9: as long as the account at currentIndex is usable for the model, every
\* pickStickyAccount call returns that account with waitMs = 0 and does not
\* change currentIndex, however many other accounts are usable too.
C9_StickyPreference ==
    [][\A m \in Models :
        (/\ PickStickyStep(m)
         /\ currentIndex \in Idx
         /\ isAccountUsable(accounts[currentIndex], m, now))
        => /\ ret'.account = currentIndex
           /\ ret'.waitMs = 0
           /\ currentIndex' = currentIndex]_vars

C9_Witness ==
    /\ ret.op = "pickStickyAccount"
    /\ ret.account = currentIndex
    /\ ret.waitMs = 0
    /\ \A i \in Idx : isAccountUsable(accounts[i], ret.model, now)

ManagerStep(op) ==
    /\ pc = "manager"
    /\ ret = NoRet
    /\ ret'.op = op

\* this step is the clock's
TickStep ==
    /\ ret = NoRet
    /\ ret' = NoRet
    /\ accounts' = Age(accounts)

\* the methods that clear the expired records on their way
ClearingOps ==
    {"pickStickyAccount", "pickNext", "getCurrentStickyAccount",
     "clearExpiredLimits"}

\* expiry of the records set by markRateLimited(email, resetMs, model) with
\* resetMs in Deltas: the record is set to expire at now + resetMs; while it
\* has time left nothing but the clock and another mark of the same record
\* touches it, and the account is unusable for the model; once no time is
\* left the account is usable again unless invalid or disabled, and the next
\* selection or clearExpiredLimits call resets the record
ExpiryFor(Deltas) ==
    /\ (ManagerStep("markRateLimited") /\ ret'.arg \in Deltas)
       => accounts'[ret'.account].modelRateLimits[ret'.model]
              = [isRateLimited |-> TRUE, resetTime |-> now + ret'.arg]
    /\ \A i \in Idx, m \in Models :
          LET rec == accounts[i].modelRateLimits[m]
          IN  /\ Remaining(accounts, i, m) > 0
                 => /\ ~isAccountUsable(accounts[i], m, now)
                    /\ i \notin getAvailableAccounts(accounts, m, now)
                    /\ \/ accounts'[i].modelRateLimits[m] = rec
                       \/ /\ TickStep
                          /\ accounts'[i].modelRateLimits[m]
                                 = [rec EXCEPT !.resetTime = @ - 1]
                       \/ /\ ManagerStep("markRateLimited")
                          /\ ret'.account = i
                          /\ ret'.model = m
              /\ (/\ rec.isRateLimited
                  /\ Remaining(accounts, i, m) <= 0
                  /\ ~accounts[i].isInvalid
                  /\ accounts[i].enabled)
                 => /\ isAccountUsable(accounts[i], m, now)
                    /\ i \in getAvailableAccounts(accounts, m, now)
              /\ (/\ rec.isRateLimited
                  /\ Remaining(accounts, i, m) <= 0
                  /\ \E op \in ClearingOps : ManagerStep(op))
                 => accounts'[i].modelRateLimits[m] = NoLimit

\* C11: an account marked rate-limited for a model at instant T with
\* resetMs = D (any duration from 0 on) is unusable for that model at every
\* instant before T + D and usable again from T + D on (if not invalid or
\* disabled), and the first selection or clearExpiredLimits call at or after
\* T + D resets its record to not-rate-limited with a null resetTime.
C11_Expiry == [][ExpiryFor(0 .. MaxReset)]_vars

SelectionOps == {"pickStickyAccount", "pickNext", "getCurrentStickyAccount"}

\* C12: getAvailableAccounts never contains an invalid account, whatever the
\* model (none included), and no selection call (pickStickyAccount, pickNext,
\* getCurrentStickyAccount) returns an account that, at the moment of the
\* call, is invalid, disabled or actively rate-limited for the model asked.
C12_SelectionSafety ==
    [][/\ \A m \in Models \cup {NoModel} :
              \A i \in getAvailableAccounts(accounts, m, now) :
                  ~accounts[i].isInvalid
       /\ \A op \in SelectionOps :
              (ManagerStep(op) /\ ret'.account # NoAccount)
              => /\ ret'.account \in Idx
                 /\ ~accounts[ret'.account].isInvalid
                 /\ accounts[ret'.account].enabled
                 /\ ~ActiveLimit(accounts[ret'.account], ret'.model, now)]_vars

C12_Witness ==
    /\ ret.op = "pickNext"
    /\ ret.account \in Idx
    /\ \E j \in Idx \ {ret.account} :
           /\ ~accounts[j].enabled
           /\ ~accounts[j].isInvalid
           /\ ~ActiveLimit(accounts[j], ret.model, now)
    /\ getAvailableAccounts(accounts, ret.model, now) = {ret.account}

\* C13: after initialize() or reload() and any sequence of pickStickyAccount,
\* pickNext and getCurrentStickyAccount calls, currentIndex is a position of
\* the account list: an activeIndex loaded out of range has become 0, and a
\* call that finds no usable account leaves it in range.
C13_IndexInRange == currentIndex \in Idx

C13_Witness ==
    /\ ret.op \in SelectionOps
    /\ ret.account = NoAccount
    /\ ret.waitMs = 0
    /\ currentIndex = NumAccounts - 1
    /\ getAvailableAccounts(accounts, ret.model, now) = {}

\* C16: when the error recorded after the endpoint loop is that of a client
\* error other than 401 and 429, the call fails at once with that error,
\* whatever text the upstream body carried: no further attempt is made and
\* no record, invalid flag or currentIndex is changed.
C16_ClientErrorFails ==
    [][/\ (pc = "afterEndpoints" /\ lastError.kind = "ApiError4xx")
          => /\ pc' = "catch"
             /\ error' = lastError
             /\ UNCHANGED <<mgrVars, attempt>>
       /\ (pc = "catch" /\ error.kind = "ApiError4xx")
          => /\ pc' = "done"
             /\ result'.kind = "error"
             /\ UNCHANGED <<mgrVars, attempt, error>>]_vars

\* the attempt before this selection ended with AUTH_INVALID: its account
\* has just been marked invalid
AfterAuthInvalid ==
    /\ pc = "pick"
    /\ account # NoAccount
    /\ accounts[account].isInvalid

\* what follows a token exchange that fails with AUTH_INVALID while another
\* account is usable, for the selections named by Attempts: the account is
\* marked invalid, the error is swallowed, and the next attempt is made on
\* another account, which is usable
AuthInvalidSwallowed(Attempts) ==
    /\ (pc = "token" /\ error'.kind = "AuthInvalid")
       => /\ pc' = "catch"
          /\ accounts'[account].isInvalid
          /\ account \notin getAvailableAccounts(accounts', model, now)
    /\ (pc = "catch" /\ error.kind = "AuthInvalid")
       => /\ pc' = "pick"
          /\ attempt' = attempt + 1
          /\ UNCHANGED <<mgrVars, account, result>>
    /\ (AfterAuthInvalid /\ OtherUsable(account) /\ attempt \in Attempts)
       => /\ pc' = "token"
          /\ account' # account
          /\ isAccountUsable(accounts[account'], model, now)
          /\ result' = NoResult

\* C17 as stated: when the token exchange of the selected account fails with
\* AUTH_INVALID and another account is usable for the model, the call does
\* not fail: the error is swallowed, the account is excluded from selection
\* and the next attempt is made on another account.
C17_AsStated == [][AuthInvalidSwallowed(0 .. MaxAttempts)]_vars

\* C17, amended: the same, as long as attempts remain (the failed attempt was
\* not the last one the retry loop allows).
C17_AuthInvalidSwallowed == [][AuthInvalidSwallowed(0 .. MaxAttempts - 1)]_vars

C17_Witness ==
    /\ pc = "token"
    /\ attempt = 1
    /\ depth = 0
    /\ account = currentIndex
    /\ \E j \in Idx \ {account} : accounts[j].isInvalid

\* C18: when every account has ended up invalid during a call without
\* fallback, the call fails with the AUTH_INVALID error and not with an
\* error of another kind.
C18_AllInvalidSurfaces ==
    (/\ pc = "done"
     /\ depth = 0
     /\ ~fallbackEnabled
     /\ \A i \in Idx : accounts[i].isInvalid)
    => /\ result.kind = "error"
       /\ error.kind = "AuthInvalid"

-----------------------------------------------------------------------------
(* Termination of sendMessage, checked under LiveSpec *)

\* the positions inside the try block and its catch block
AttemptPcs == {"token", "fetch", "pause5xx", "afterEndpoints", "catch",
               "pauseNet"}

\* C15: every call ends, given that each sleep, token exchange and HTTP call
\* returns: at each model level an attempt on an account is only made while
\* attempt < MaxAttempts = max(MAX_RETRIES, N + 1), an attempt tries each
\* endpoint at most once, and when the attempts are used up the call fails
\* with 'Max retries exceeded'.
C15_Terminates ==
    /\ [](/\ attempt <= MaxAttempts
          /\ pc \in AttemptPcs => attempt < MaxAttempts
          /\ Len(statuses) <= NumEndpoints
          /\ pc = "fetch" => endpoint = Len(statuses) + 1
          /\ result.kind = "MaxRetries" => attempt = MaxAttempts)
    /\ (pc = "pick" /\ attempt = MaxAttempts)
           ~> (pc = "done" /\ result.kind = "MaxRetries")
    /\ <>(pc = "done")

C15_Witness ==
    /\ pc = "done"
    /\ result.kind = "MaxRetries"
    /\ attempt = MaxAttempts
    /\ depth = 1

-----------------------------------------------------------------------------
(* Properties of concurrent calls, checked under ConcSpec *)

\* C14: whatever the interleaving of the calls that share the manager, no
\* request is issued to the backend on an account for a model while the
\* record of that account for that model is active.
C14_NoRequestWhileLimited ==
    pc = "fetch" => ~ActiveLimit(accounts[account], model, now)

-----------------------------------------------------------------------------
(* Properties of the token cache, checked under TokenSpec *)

\* the age of the entry cached for account i
TokenAge(i) == now - tokenCache[i].extractedAt

\* C20: getTokenForAccount goes to the token endpoint for an OAuth account
\* if and only if the cache holds no entry for it (never cached, or cleared)
\* or the entry is at least TOKEN_REFRESH_INTERVAL_MS old; otherwise it
\* returns the cached token and leaves the cache as it is.  clearTokenCache
\* removes the entry of the email given, or every entry for null.
C20_TokenTtl ==
    [][/\ ManagerStep("getTokenForAccount")
          => /\ ret'.exchanged
                <=> \/ ~tokenCache[ret'.account].cached
                    \/ TokenAge(ret'.account) >= TOKEN_REFRESH_INTERVAL_MS
             /\ ~ret'.exchanged => UNCHANGED <<retry, chart, waitedFor, events, tokenCache, projectCache,
                                               
                                               accounts>>
       /\ ManagerStep("clearTokenCache")
          => \A i \in Idx :
                 tokenCache'[i] = IF ret'.account \in {i, NoAccount}
                                  THEN NoToken ELSE tokenCache[i]]_vars

C20_Witness ==
    /\ ret.op = "getTokenForAccount"
    /\ ret.exchanged
    /\ tokenCache[ret.account].cached
    /\ TokenAge(ret.account) = 0
    /\ \E j \in Idx \ {ret.account} :
           /\ tokenCache[j].cached
           /\ TokenAge(j) = TOKEN_REFRESH_INTERVAL_MS

\* C21: a failed OAuth refresh sets the isInvalid flag of the account if and
\* only if the message of the failure matches no network pattern: a
\* network-class failure leaves the account as it was (invalid or not) and
\* is thrown as AUTH_NETWORK_ERROR, any other failure sets isInvalid with
\* the message of the failure as invalidReason and is thrown as
\* AUTH_INVALID; no other account and no cache entry changes.
C21_RefreshFailure ==
    [][(ManagerStep("getTokenForAccount") /\ ret'.thrown # NoError)
       => /\ ret'.exchanged
          /\ tokenCache' = tokenCache
          /\ IF ret'.thrown.txt = "network"
             THEN /\ ret'.thrown.kind = "AuthNetwork"
                  /\ accounts' = accounts
             ELSE /\ ret'.thrown.kind = "AuthInvalid"
                  /\ accounts' =
                         [accounts EXCEPT
                             ![ret'.account].isInvalid = TRUE,
                             ![ret'.account].invalidReason =
                                 ret'.thrown.txt]]_vars

C21_Witness ==
    /\ ret.op = "getTokenForAccount"
    /\ ret.thrown.kind = "AuthNetwork"
    /\ accounts[ret.account].isInvalid
    /\ accounts[ret.account].invalidReason = "auth"
    /\ \E j \in Idx \ {ret.account} : ~accounts[j].isInvalid

-----------------------------------------------------------------------------
(* Further properties of sendMessage, checked under Spec *)

\* the positions at which the call sleeps until a rate limit resets
ResetSleepPcs == {"sleepSticky", "sleepAll"}

\* C22: every sleep the call performs to wait for a rate-limit reset (the
\* wait for the sticky account and the wait when all accounts are limited)
\* lasts at most MAX_WAIT_BEFORE_ERROR_MS, and no sleep of this kind is
\* prolonged while it is pending.
C22_SleepCapped ==
    [][/\ (pc \notin ResetSleepPcs /\ pc' \in ResetSleepPcs)
          => /\ wakeAt' >= now
             /\ wakeAt' - now <= MAX_WAIT_BEFORE_ERROR_MS
       /\ (pc \in ResetSleepPcs /\ pc' = pc)
          => wakeAt' - now <= wakeAt - now]_vars

C22_Witness ==
    /\ pc = "sleepAll"
    /\ wakeAt - now = MAX_WAIT_BEFORE_ERROR_MS
    /\ getMinWaitTimeMs(accounts, model, now) = MAX_WAIT_BEFORE_ERROR_MS
    /\ \E i \in Idx : Remaining(accounts, i, model) > MAX_WAIT_BEFORE_ERROR_MS

\* the record of account i for model m is rate-limited
Limited(accts, i, m) == accts[i].modelRateLimits[m].isRateLimited

\* C23: a record that is not rate-limited (one cleared by expiry among them)
\* stays so in every later state until the call marks that same (account,
\* model) at the end of an attempt in which an endpoint answered 429; no
\* other step makes a record rate-limited.
C23_NoReappearance ==
    [][\A i \in Idx, m \in Models :
        (~Limited(accounts, i, m) /\ Limited(accounts', i, m))
        => /\ pc = "afterEndpoints"
           /\ pc' = "catch"
           /\ account = i
           /\ model = m
           /\ \E k \in 1 .. Len(statuses) : statuses[k] = "429"
           /\ accounts'[i].modelRateLimits[m].resetTime > now]_vars

\* the call slept until the record of its account had expired, the selection
\* after the sleep cleared the record, and the attempt then made has ended
\* with the record marked again
C23_Witness ==
    /\ pc = "catch"
    /\ lastAll429
    /\ wakeAt # NullTime
    /\ ~Limited(attemptLedger, account, model)
    /\ ActiveLimit(accounts[account], model, now)
    /\ \A j \in Idx \ {account} : ~accounts[j].enabled

\* C24: in an attempt the account is marked rate-limited only if every
\* endpoint tried in the attempt answered 429: after an attempt in which one
\* endpoint answered 429 and another answered 401, 5xx, another 4xx or
\* failed with a transport error, the records of the account are left as
\* they were, in whichever order the endpoints answered.
C24_MarkOnlyIfAll429 ==
    [][(/\ pc = "afterEndpoints"
        /\ \E k \in 1 .. Len(statuses) : statuses[k] = "429"
        /\ ~All429(statuses))
       => accounts'[account].modelRateLimits
              = accounts[account].modelRateLimits]_vars

\* C25: whenever the catch block of an attempt on account X classifies the
\* error as a rate-limit error and continues, X already holds an active
\* record for the model of the call, so that the next pickStickyAccount of
\* the call does not return X; also when the error is a rate-limit error
\* thrown by fetch and thrown on from the endpoint loop.
C25_MarkedBeforeContinue ==
    [][(pc = "catch" /\ isRateLimitError(error))
       => /\ ActiveLimit(accounts[account], model, now)
          /\ pc' = "pick"
          /\ pickStickyAccount(accounts', currentIndex', model, now).account
                 # account]_vars

\* every endpoint of the attempt answered 401
All401(sts) ==
    /\ Len(sts) = NumEndpoints
    /\ \A k \in 1 .. Len(sts) : sts[k] = "401"

\* C26: when every endpoint answers 401 in an attempt, the attempt ends with
\* a recorded error that reaches the catch block of the attempt: it does not
\* end with no error recorded.
C26_All401Recorded ==
    [][(pc = "afterEndpoints" /\ All401(statuses))
       => /\ pc' = "catch"
          /\ error' # NoError]_vars

-----------------------------------------------------------------------------
(* Properties of the caches in sendMessage, checked under AuthSpec *)

\* this step is the handling of a 401 answer
Handles401 ==
    /\ pc = "fetch"
    /\ Len(statuses') = Len(statuses) + 1
    /\ statuses'[Len(statuses')] = "401"

\* C27: a 401 from an endpoint removes the token-cache and project-cache
\* entries of the account being attempted and of no other account, and
\* changes no rate-limit record, invalid flag or currentIndex; the entry
\* stays absent until the next getTokenForAccount call for that account,
\* and that call makes a fresh exchange: it caches a token obtained now or
\* fails with the error of the exchange.
C27_CachesClearedOn401 ==
    [][/\ Handles401
          => /\ tokenCache' = [tokenCache EXCEPT ![account] = NoToken]
             /\ projectCache' = [projectCache EXCEPT ![account] = NoProject]
             /\ UNCHANGED <<mgrVars, account>>
       /\ \A i \in Idx :
              (~tokenCache[i].cached /\ tokenCache'[i].cached)
              => (pc = "token" /\ account = i)
       /\ (pc = "token" /\ pc' # pc /\ ~tokenCache[account].cached)
          => \/ /\ pc' = "fetch"
                /\ tokenCache'[account] =
                       [cached |-> TRUE, extractedAt |-> now]
             \/ /\ pc' = "catch"
                /\ error'.kind \in {"AuthInvalid", "AuthNetwork"}
                /\ tokenCache' = tokenCache]_vars

C27_Witness ==
    /\ pc = "fetch"
    /\ statuses = <<"401">>
    /\ tokenCache[account] = NoToken
    /\ projectCache[account] = NoProject
    /\ \E j \in Idx \ {account} :
           /\ tokenCache[j].cached
           /\ projectCache[j] # NoProject
           /\ TokenAge(j) > 0

-----------------------------------------------------------------------------
(* Properties of the catch block, checked under Spec *)

\* what follows an attempt on account X that failed with the error of a 5xx
\* answer whose body is of one of Bodies, while another account is usable:
\* the selector is advanced to a usable account other than X, which the
\* next selection of the call returns, and X gets no record and no flag
AdvancesAfter5xx(Bodies) ==
    (/\ pc = "catch"
     /\ error.kind = "ApiError5xx"
     /\ error.txt \in Bodies
     /\ OtherUsable(account))
    => /\ pc' = "pick"
       /\ attempt' = attempt + 1
       /\ currentIndex' # account
       /\ isAccountUsable(accounts'[currentIndex'], model, now)
       /\ pickStickyAccount(accounts', currentIndex', model, now).account
              = currentIndex'
       /\ accounts' = clearExpiredLimits(accounts, now)
       /\ ~ActiveLimit(accounts'[account], model, now)
       /\ accounts'[account].isInvalid = accounts[account].isInvalid

\* C28: after an attempt on account X fails with a 5xx-class error while
\* another account is usable for the model, the selector is advanced and
\* the next attempt of the call is made on an account other than X; the
\* failure sets no rate-limit record and no invalid flag on X.
C28_AdvanceAfter5xx == [][AdvancesAfter5xx(Texts)]_vars

-----------------------------------------------------------------------------
(* Properties of sendMessageStream, checked under StreamSpec *)

\* C29: in streaming mode the events a caller receives come from exactly one
\* upstream response: once an event has been yielded to the caller, the
\* call sends no further request to an endpoint, starts no attempt on an
\* account and yields no event of a second response, also when the upstream
\* stream fails after some events were yielded.
C29_OneUpstreamResponse ==
    events # <<>>
    => /\ pc \notin {"token", "fetch"}
       /\ \A k \in 1 .. Len(events) : events[k] = events[1]

-----------------------------------------------------------------------------
(* The sticky wait among concurrent calls, checked under ConcSpec *)

\* the sleep for the sticky account ends and the call goes on
SleepStickyEnds(a) ==
    /\ pc = "sleepSticky"
    /\ pc' # "sleepSticky"
    /\ waitedFor = a

\* C30: when pickStickyAccount returned {account: null, waitMs > 0} for the
\* sticky account S, the call goes on after the sleep with S if S is usable
\* by then, and with no other account, whatever other calls did to the
\* active index during the sleep.
C30_WaitKeepsSticky ==
    [][\A a \in Idx :
         SleepStickyEnds(a)
         => /\ account' \in {NoAccount, a}
            /\ isAccountUsable(clearExpiredLimits(accounts, now)[a], model, now)
               => account' = a]_vars

-----------------------------------------------------------------------------
(* The persisted state, checked under MgrSpec *)

\* a selection returns with the active index moved, and it has saved
SelectionRotates ==
    /\ ret = NoRet
    /\ ret'.op \in {"pickNext", "pickStickyAccount"}
    /\ currentIndex' # currentIndex
    /\ ret'.saved # NoSave

\* C31: when pickNext, or pickStickyAccount when it rotates, has changed the
\* active index, the activeIndex written by the save it triggered equals the
\* active index the manager holds in memory.
C31_PersistedFollowsSelection ==
    [][SelectionRotates => ret'.saved = currentIndex']_vars

-----------------------------------------------------------------------------
(* The wait for all accounts, checked under Spec *)

\* the sleep for all accounts ends while some account is enabled and valid
AllSleepEnds ==
    /\ pc = "sleepAll"
    /\ pc' # "sleepAll"
    /\ \E i \in Idx : accounts[i].enabled /\ ~accounts[i].isInvalid

\* C32: when all accounts were found rate-limited for the model with a wait
\* within MAX_WAIT_BEFORE_ERROR_MS and some account is enabled and not
\* invalid, pickNext returns an account after the sleep and the clearing of
\* the expired limits: the call does not go on to 'No accounts available'.
C32_ProgressAfterAllLimitedWait ==
    [][AllSleepEnds => account' # NoAccount /\ pc' = "token"]_vars

-----------------------------------------------------------------------------
(* The rotation of pickNext, checked under MgrSpec *)

\* the account at the k-th place of the cyclic order that starts after the
\* active index
CyclicOrder(k) == (currentIndex + k) % NumAccounts

\* the accounts usable for model m once the expired limits are cleared
UsableNow(j, m) ==
    isAccountUsable(clearExpiredLimits(accounts, now)[j], m, now)

\* pickNext(m) returns
PickNextReturns(m) ==
    /\ ret = NoRet
    /\ ret'.op = "pickNext"
    /\ ret'.model = m

\* what pickNext(m) has to do
RotatesInOrder(m) ==
    IF \E j \in Idx : UsableNow(j, m)
    THEN \E k \in 1 .. NumAccounts :
            /\ UsableNow(CyclicOrder(k), m)
            /\ \A h \in 1 .. (k - 1) : ~UsableNow(CyclicOrder(h), m)
            /\ ret'.account = CyclicOrder(k)
            /\ currentIndex' = CyclicOrder(k)
            /\ ret'.touched = {CyclicOrder(k)}
    ELSE /\ ret'.account = NoAccount
         /\ currentIndex' = currentIndex
         /\ ret'.touched = {}

\* C33: pickNext returns the first usable account in the cyclic order
\* (activeIndex + 1) mod N, ..., activeIndex and sets activeIndex to its
\* position; when no account is usable it returns null and leaves activeIndex
\* and every lastUsed as they were.
C33_PickNextRotationOrder ==
    [][\A m \in Models : PickNextReturns(m) => RotatesInOrder(m)]_vars

\* pickNext has passed over the account after the active one and returned
\* the active account itself
C33_Witness ==
    /\ ret.op = "pickNext"
    /\ ret.account = currentIndex
    /\ ~accounts[(currentIndex + 1) % NumAccounts].enabled

-----------------------------------------------------------------------------
(* The cooldown of a mark, checked under MgrSpec *)

\* resetMs ?? cooldownFromSettings ?? DefaultCooldown
CooldownOf(resetMs, cooldownSetting) ==
    IF resetMs # NoReset THEN resetMs
    ELSE IF cooldownSetting # NoReset THEN cooldownSetting
    ELSE DEFAULT_COOLDOWN_MS

\* C34: markRateLimited(email, resetMs, model) sets the record to
\* rate-limited with resetTime = now + resetMs for every resetMs that is not
\* null, 0 included; the cooldown of the settings is used only when resetMs
\* is null, and DEFAULT_COOLDOWN_MS only when both are absent.
C34_MarkCooldown ==
    [][(ret = NoRet /\ ret'.op = "markRateLimited")
       => accounts'[ret'.account].modelRateLimits[ret'.model] =
             [isRateLimited |-> TRUE,
              resetTime |-> now + CooldownOf(ret'.arg, settings)]]_vars

-----------------------------------------------------------------------------
(* The minimum wait, checked under Spec *)

\* the time left on the record of account i for model m
RemainingOf(i, m) == accounts[i].modelRateLimits[m].resetTime - now

\* every account is invalid or has an active limit for model m
EveryAccountOut(m) ==
    \A i \in Idx :
        \/ accounts[i].isInvalid
        \/ accounts[i].modelRateLimits[m].isRateLimited /\ RemainingOf(i, m) > 0

\* the strictly positive times left on the records for model m
PositiveRemaining(m) ==
    {RemainingOf(i, m) : i \in {j \in Idx :
        accounts[j].modelRateLimits[m].isRateLimited /\ RemainingOf(j, m) > 0}}

\* C35: getMinWaitTimeMs(model) is 0 whenever not all accounts are
\* rate-limited for the model; otherwise it is the smallest strictly positive
\* resetTime - now over the records for the model, and DEFAULT_COOLDOWN_MS
\* when no record has time left; it is never negative.
C35_MinWait ==
    \A m \in Models :
        LET w == getMinWaitTimeMs(accounts, m, now)
        IN  /\ w >= 0
            /\ ~EveryAccountOut(m) => w = 0
            /\ EveryAccountOut(m) /\ PositiveRemaining(m) # {}
               => w \in PositiveRemaining(m)
                  /\ \A x \in PositiveRemaining(m) : w <= x
            /\ EveryAccountOut(m) /\ PositiveRemaining(m) = {}
               => w = DEFAULT_COOLDOWN_MS

\* all accounts are limited for the model of the call, for different lengths
\* of time, and the call sleeps for the shorter one
C35_Witness ==
    /\ pc = "sleepAll"
    /\ EveryAccountOut(model)
    /\ Cardinality(PositiveRemaining(model)) > 1
    /\ getMinWaitTimeMs(accounts, model, now) > 0
    /\ wakeAt = now + getMinWaitTimeMs(accounts, model, now)

-----------------------------------------------------------------------------
(* The clearing of expired records, checked under MgrSpec *)

\* the record of account i for model m is limited and its reset time is over
IsExpired(i, m) ==
    /\ accounts[i].modelRateLimits[m].isRateLimited
    /\ accounts[i].modelRateLimits[m].resetTime <= now

\* clearExpiredLimits() returns
ClearExpiredReturns ==
    /\ ret = NoRet
    /\ ret'.op = "clearExpiredLimits"

\* what clearExpiredLimits() has to do
ClearsExactlyExpired ==
    /\ \A i \in Idx, m \in Models :
          accounts'[i].modelRateLimits[m] =
             IF IsExpired(i, m) THEN NoLimit ELSE accounts[i].modelRateLimits[m]
    /\ \A i \in Idx :
          /\ accounts'[i].isInvalid = accounts[i].isInvalid
          /\ accounts'[i].enabled = accounts[i].enabled
    /\ ret'.cleared =
          Cardinality({p \in Idx \X Models : IsExpired(p[1], p[2])})
    /\ clearExpiredLimits(accounts', now) = accounts'
    /\ ClearedCount(accounts', now) = 0

\* C36: clearExpiredLimits clears exactly the records with isRateLimited and
\* resetTime <= now, leaves every record with resetTime > now and every
\* isInvalid and enabled flag as they were, returns the number of records it
\* cleared, and a second call at the same instant clears nothing and
\* returns 0.
C36_ClearExpired ==
    [][ClearExpiredReturns => ClearsExactlyExpired]_vars

\* clearExpiredLimits has cleared a record and left a running one alone
C36_Witness ==
    /\ ret.op = "clearExpiredLimits"
    /\ ret.cleared > 0
    /\ \E i \in Idx, m \in Models :
          /\ accounts[i].modelRateLimits[m].isRateLimited
          /\ accounts[i].modelRateLimits[m].resetTime > now

-----------------------------------------------------------------------------
(* credentials.js: the project cache of the AccountManager.  An account may *)
(* name its project (projectId); otherwise the project is asked of the      *)
(* loadCodeAssist API, whose answers are any string.                        *)

\* the manager is initialized, no project is cached; each account names a
\* project or not
ProjectInit ==
    /\ accounts \in [Idx -> {[a EXCEPT !.projectId = p] :
                        a \in {NoLedger[0]}, p \in {NoProject, "explicit"}}]
    /\ currentIndex = 0
    /\ settings = NoReset
    /\ pc = "manager"
    /\ NoCall

\* AccountManager.getProjectForAccount(account, token)
CallGetProjectForAccount(i, answers) ==
    /\ pc = "manager"
    /\ ret = NoRet
    /\ LET r == getProjectForAccount(projectCache, accounts, i, answers)
       IN  /\ projectCache' = r.cache
           /\ ret' = [NoRet EXCEPT !.op = "getProjectForAccount",
                                   !.account = i,
                                   !.project = r.project,
                                   !.discovered = r.discovered]
    /\ UNCHANGED <<retry, chart, waitedFor, events, tokenCache, mgrVars, callVars, histVars>>

\* AccountManager.clearProjectCache(email)
CallClearProjectCache(e) ==
    /\ pc = "manager"
    /\ ret = NoRet
    /\ projectCache' = clearProjectCache(projectCache, e)
    /\ ret' = [NoRet EXCEPT !.op = "clearProjectCache", !.account = e]
    /\ UNCHANGED <<retry, chart, waitedFor, events, tokenCache, mgrVars, callVars, histVars>>

ProjectNext ==
    \/ Tick
    \/ \E i \in Idx, p \in DiscoverAnswers : CallGetProjectForAccount(i, p)
    \/ \E e \in Idx \cup {NoAccount} : CallClearProjectCache(e)
    \/ TakeResult

ProjectSpec == ProjectInit /\ [][ProjectNext]_vars

\* getProjectForAccount returns for account i
ProjectForReturns(i) ==
    /\ ret = NoRet
    /\ ret'.op = "getProjectForAccount"
    /\ ret'.account = i

\* clearProjectCache returns, called for account i or for all
ProjectCacheCleared(i) ==
    /\ ret = NoRet
    /\ ret'.op = "clearProjectCache"
    /\ ret'.account \in {i, NoAccount}

\* the lifetime of the entries holding one of the ids of Ids
EntryLives(Ids) ==
    \A i \in Idx :
        projectCache[i] \in Ids
        => /\ ProjectForReturns(i)
              => /\ ret'.project = projectCache[i]
                 /\ ~ret'.discovered
           /\ projectCache'[i] # projectCache[i] => ProjectCacheCleared(i)

\* C37: getProjectForAccount returns the cached project id whenever an entry
\* exists for the account, without calling the backend, and an entry once
\* written (the projectId of the account, a discovered id, the default id)
\* is returned as it is by every later call until clearProjectCache is
\* called for that account or for all.
C37_ProjectCacheLifetime ==
    [][EntryLives(ProjectIds \cup {DEFAULT_PROJECT_ID, "explicit"})]_vars

-----------------------------------------------------------------------------
(* C38: sendMessage and sendMessageStream are one state machine over the    *)
(* shared state: for the same token results and the same per-endpoint       *)
(* outcomes they make the same selections, mutations and sleeps and end     *)
(* with the same outcome kind.                                              *)

\* the tests the catch of the retry loop applies, in order, to what an
\* attempt threw; two errors with the same answers take the same branch
Classes(e) ==
    <<isRateLimitError(e), isAuthError(e), Is5xxMessage(e), isNetworkError(e)>>

\* sendMessage on an answer that is not ok and below 400: `status >= 400`
\* is false, the code falls through to the parsing of a body that
\* response.text() has consumed; either the parse returns a message or it
\* throws an error that does not quote the body, which FetchThrows("plain")
\* records before going to the next endpoint
SendMessageBelow400 ==
    \/ /\ pc' = "done"
       /\ result'.kind = "response"
    \/ /\ Classes(lastError') = Classes(Err("Thrown", "plain"))
       /\ pc' # "done"
       /\ UNCHANGED <<mgrVars, tokenCache, projectCache, wakeAt>>

\* C38: whenever sendMessageStream handles an answer of an endpoint, the
\* step it takes is one that sendMessage takes on the same answer in the
\* same state: the same mutations and sleeps and an error the retry loop
\* treats alike.  Every other answer is handled by the same action in both
\* dispatchers; the formula is about the one answer that is not.
C38_SameDispatcher ==
    [][\A x \in Texts : StreamRespBelow400(x) => SendMessageBelow400]_vars

-----------------------------------------------------------------------------
(* retryWithBackoff(fn, options) of utils/retry.js, called with any         *)
(* maxAttempts from 0 to MaxRetryAttempts, with or without an onRetry       *)
(* callback.  fn, shouldRetry and onRetry are the caller's: fn returns or   *)
(* throws, shouldRetry answers true or false, onRetry returns or throws.    *)
(* The call is followed from await to await; retry.log is the history of    *)
(* the invocations of fn, with their outcome, and of the sleeps.            *)

MaxRetryAttempts == 5    \* the default of options.maxAttempts

RetryInit ==
    /\ accounts = NoLedger
    /\ currentIndex = 0
    /\ settings = NoReset
    /\ pc = "manager"
    /\ NoCall

\* what every step of the retry utility leaves alone
RetryFrame ==
    UNCHANGED <<chart, waitedFor, events, tokenCache, projectCache, ret,
                mgrVars, callVars, histVars>>

\* throw e out of retryWithBackoff
RetryThrows(r, e) == [r EXCEPT !.pc = "threw", !.thrown = e]

\* the head of the for loop: attempt < maxAttempts begins fn(attempt); after
\* the loop comes `throw lastError`
RetryLoop(r) ==
    IF r.attempt < r.maxAttempts
    THEN [r EXCEPT !.pc = "fn"]
    ELSE RetryThrows(r, r.lastError)

\* retryWithBackoff(fn, {maxAttempts: n, onRetry: cb}) is called
CallRetryWithBackoff(n, cb) ==
    /\ retry.pc = "idle"
    /\ retry' = RetryLoop([NoRetry EXCEPT !.maxAttempts = n, !.onRetry = cb])
    /\ RetryFrame

\* return await fn(attempt): fn resolved
FnReturns ==
    /\ retry.pc = "fn"
    /\ retry' = [retry EXCEPT !.pc = "returned",
                              !.log = Append(@, "fn: ok")]
    /\ RetryFrame

\* fn rejected: the catch block, up to its first await or its throw;
\* retryable is what shouldRetry(error, attempt) answers when it is asked
FnThrows(retryable) ==
    /\ retry.pc = "fn"
    /\ LET e == ThrownBy("fn", retry.attempt)
           r == [retry EXCEPT !.lastError = e]
       IN  retry' =
             IF r.attempt = r.maxAttempts - 1
             THEN RetryThrows([r EXCEPT !.log = Append(@, "fn: error")], e)
             ELSE IF ~retryable
             THEN RetryThrows([r EXCEPT !.log = Append(@, "fn: refused")], e)
             ELSE [r EXCEPT !.log = Append(@, "fn: error"),
                            !.pc = IF r.onRetry = "null"
                                   THEN "sleep" ELSE "onRetry"]
    /\ RetryFrame

\* await onRetry(error, attempt, backoffMs) resolved: sleep(backoffMs) begins
OnRetryReturns ==
    /\ retry.pc = "onRetry"
    /\ retry.onRetry = "returns"
    /\ retry' = [retry EXCEPT !.pc = "sleep"]
    /\ RetryFrame

\* onRetry rejected: nothing in the catch block catches it
OnRetryThrows ==
    /\ retry.pc = "onRetry"
    /\ retry.onRetry = "throws"
    /\ retry' = RetryThrows(retry, ThrownBy("onRetry", retry.attempt))
    /\ RetryFrame

\* await sleep(backoffMs) is over: attempt++ and the head of the loop
SleepEnds ==
    /\ retry.pc = "sleep"
    /\ retry' = RetryLoop([retry EXCEPT !.attempt = @ + 1,
                                        !.log = Append(@, "sleep")])
    /\ RetryFrame

\* the caller has its result; the next call may begin
RetryResult ==
    /\ retry.pc \in {"returned", "threw"}
    /\ retry' = NoRetry
    /\ RetryFrame

RetryNext ==
    \/ \E n \in 0 .. MaxRetryAttempts, cb \in {"null", "returns", "throws"} :
          CallRetryWithBackoff(n, cb)
    \/ FnReturns
    \/ \E retryable \in BOOLEAN : FnThrows(retryable)
    \/ OnRetryReturns
    \/ OnRetryThrows
    \/ SleepEnds
    \/ RetryResult

RetrySpec == RetryInit /\ [][RetryNext]_vars

-----------------------------------------------------------------------------
(* C39: retryWithBackoff invokes fn at most maxAttempts times, never again  *)
(* after a success or after an error shouldRetry refused, sleeps only       *)
(* between two invocations, and throws the error of its last invocation.    *)

\* positions of retry.log that are invocations of fn
FnCalls == {k \in 1 .. Len(retry.log) : retry.log[k] # "sleep"}

RetryOver == retry.pc \in {"returned", "threw"}

AtMostMaxAttempts == Cardinality(FnCalls) <= retry.maxAttempts

NothingAfterFinal ==
    \A k \in FnCalls :
        retry.log[k] \in {"fn: ok", "fn: refused"} => k = Len(retry.log)

SleepsOnlyBetween ==
    \A k \in 1 .. Len(retry.log) :
        retry.log[k] = "sleep"
            => /\ k > 1
               /\ retry.log[k - 1] # "sleep"
               /\ RetryOver => k < Len(retry.log)

ThrowsLastError ==
    retry.pc = "threw"
        => /\ FnCalls # {}
           /\ retry.thrown = ThrownBy("fn", Cardinality(FnCalls) - 1)

\* C39: at every moment of a retryWithBackoff call, fn has been invoked at
\* most maxAttempts times, an invocation that succeeded or whose error
\* shouldRetry refused is the last entry of the history, every sleep stands
\* between two invocations once the call is over, and a call that threw
\* threw the error of its last invocation of fn.
C39_RetryContract ==
    /\ AtMostMaxAttempts
    /\ NothingAfterFinal
    /\ SleepsOnlyBetween
    /\ ThrowsLastError

-----------------------------------------------------------------------------
(* The trend chart of the dashboard (DashboardCharts.updateTrendChart).     *)
(* The function is synchronous, so a call is one step.  Between calls the   *)
(* page changes what the function reads: the canvas #usageTrendChart is     *)
(* absent from the DOM, present without a size ("unready") or ready; the    *)
(* Chart.js script has arrived or not; component.historyData is empty or    *)
(* not; the user switches component.displayMode.  chart.last is the path    *)
(* the latest call returned on.  Exceptions of the dataset construction     *)
(* (lines 347-427) are not followed.                                        *)

ChartInit ==
    /\ accounts = NoLedger
    /\ currentIndex = 0
    /\ settings = NoReset
    /\ pc = "manager"
    /\ NoCall

\* what the dashboard leaves alone
ChartFrame ==
    UNCHANGED <<retry, waitedFor, events, tokenCache, projectCache, ret,
                mgrVars, callVars, histVars>>

\* the view is mounted, laid out or removed:
\* document.getElementById("usageTrendChart") and isCanvasReady(canvas)
CanvasChanges(c) ==
    /\ c # chart.canvas
    /\ chart' = [chart EXCEPT !.canvas = c]
    /\ ChartFrame

\* the Chart.js script has loaded: typeof Chart !== "undefined"
ChartJsLoads ==
    /\ ~chart.chartJs
    /\ chart' = [chart EXCEPT !.chartJs = TRUE]
    /\ ChartFrame

\* component.historyData is assigned: h says whether it has entries
HistoryArrives(h) ==
    /\ h # chart.history
    /\ chart' = [chart EXCEPT !.history = h]
    /\ ChartFrame

\* updateTrendChart(component), from its first line to its return;
\* created says whether `new Chart(canvas, ...)` returns or throws
updateTrendChart(c, created) ==
    IF c.lock
    THEN [c EXCEPT !.last = "skipped"]
    ELSE LET locked == [c EXCEPT !.lock = TRUE, !.usageTrend = FALSE]
         IN  IF locked.canvas = "absent"
             THEN [locked EXCEPT !.last = "no canvas"]
             ELSE IF ~locked.chartJs
             THEN [locked EXCEPT !.last = "no Chart.js"]
             ELSE IF locked.canvas # "ready"
             THEN [locked EXCEPT !.lock = FALSE, !.last = "not ready"]
             ELSE IF ~locked.history
             THEN [locked EXCEPT !.lock = FALSE, !.last = "no history"]
             ELSE [locked EXCEPT !.lock = FALSE, !.usageTrend = created,
                                 !.last = IF created THEN "created"
                                          ELSE "failed"]

\* component.updateTrendChart() by itself (a refresh of the data, a change
\* of the filters or of the time range)
UpdateTrendChart(created) ==
    /\ chart' = updateTrendChart(chart, created)
    /\ chart' # chart
    /\ ChartFrame

\* DashboardFilters.setDisplayMode(component, mode), which ends with
\* component.updateTrendChart()
SetDisplayMode(mode, created) ==
    /\ mode # chart.displayMode
    /\ chart' = updateTrendChart([chart EXCEPT !.displayMode = mode], created)
    /\ ChartFrame

ChartNext ==
    \/ \E c \in {"absent", "unready", "ready"} : CanvasChanges(c)
    \/ ChartJsLoads
    \/ \E h \in BOOLEAN : HistoryArrives(h)
    \/ \E created \in BOOLEAN : UpdateTrendChart(created)
    \/ \E mode \in {"family", "model"}, created \in BOOLEAN :
          SetDisplayMode(mode, created)

ChartSpec == ChartInit /\ [][ChartNext]_vars

-----------------------------------------------------------------------------
(* C40: the trend-chart update lock is always released: whenever            *)
(* updateTrendChart has returned the lock is false, so no later call is     *)
(* skipped because of a call that has already returned.                     *)

\* C40: between calls of updateTrendChart (the function is synchronous, so
\* every state of the dashboard is one) _trendChartUpdateLock is false, and
\* the latest call was not skipped for finding the lock taken.
C40_LockReleased ==
    /\ ~chart.lock
    /\ chart.last # "skipped"

====
